---------------------------- MODULE Spec2Model ----------------------------
(***************************************************************************)
(* A model of rpi-messages: the length-prefixed wire codec shared by the   *)
(* device and the backend (common/src/protocols/pico.rs), the device's     *)
(* fixed-capacity message cache (pico/src/messagebuf.rs) and the device's  *)
(* fetch and display tasks (pico/src/main.rs, pico/src/fetch_protocol.rs), *)
(* and the backend's message repository with its web and device handlers   *)
(* (server/src/db/memory_db.rs, server/src/handlers), and the Telegram     *)
(* bot's dialogue.                                                         *)
(*                                                                         *)
(* Eleven specifications share the module:                                 *)
(*   SpecCodec  one frame at a time through Transmission::send and         *)
(*              Transmission::receive;                                     *)
(*   SpecCache  the Messages structure under writes and the passing of     *)
(*              time;                                                      *)
(*   SpecRotation  chained next-to-display calls over that cache;          *)
(*   Spec       the fetch task and the display task sharing the cache      *)
(*              behind the MESSAGES mutex;                                 *)
(*   SpecSession   the fetch task alone over fetch_protocol::Socket, with  *)
(*              its cursor and the life of each connection;                *)
(*   SpecProtocol  the fetch task over protocol::Protocol, whose           *)
(*              operations unwrap every socket result;                     *)
(*   SpecBackend   the repository under concurrent web requests, and       *)
(*              handle_client serving one polling device;                  *)
(*   SpecListener  run accepting the connections of two devices that send  *)
(*              any command and may drop their connection;                 *)
(*   SpecPoll   a device polling, from any cursor, a repository that no    *)
(*              longer changes;                                            *)
(*   SpecFair   the steps of the fetch and the display task under the      *)
(*              fairness the socket timeout and the executor give;         *)
(*   SpecDialogue  the Telegram bot's dialogue with an administrator and   *)
(*              one other user (server/src/handlers/telegram/mod.rs).      *)
(***************************************************************************)
EXTENDS Integers, Sequences, FiniteSets, TLC

VARIABLES
    \* ---- codec (SpecCodec) ----
    cpc,        \* "idle" | "sent" | "received" | "encoded"
    order,      \* byte order of the build: "le" | "be" (to_ne_bytes / from_ne_bytes)
    txKind,     \* type of the frame on the wire: "command" | "result" | "raw"
    tx,         \* the value the sender encoded (NoValue for a raw frame)
    wire,       \* bytes the sender wrote to the socket
    rx,         \* what Transmission::receive returned
    rxRead,     \* bytes receive consumed from the socket
    rxTop,      \* one past the highest index of the receive buffer that was sliced
    txRes,      \* an encoding into a short buffer: the buffer's length and the outcome
    \* ---- message cache and display rotation (SpecCache, Spec) ----
    now,                \* Instant::now(), in ticks
    texts,              \* Messages::texts
    images,             \* Messages::images
    last_message_time,  \* display_messages_task's local
    shown,              \* what the last next-to-display call returned
    nwrites,            \* updates handled so far (the next update's id)
    lastWrite,          \* the last cache write: its kind, slot and the array before it
    fill,               \* per kind: writes since the empty cache, and whether each found
                        \* all earlier written slots still active
    rotation,           \* slots returned by the calls since the cache last changed
    rotFrom,            \* last_message_time when that chain of calls began
    \* ---- fetch task and display task (Spec) ----
    fpc,                \* fetch_data_task: the await it is suspended at
    dpc,                \* display_messages_task: "lock" | "render" | "wait"
    owner,              \* holder of the MESSAGES mutex: "none" | "fetch" | "display"
    reply,              \* the last Socket::request_update: what was received, what it returned
    handling,           \* the Update that Socket::handle_update is handling
    slot,               \* the slot handle_update selected
    PRIO_MESSAGE_SIGNAL,\* the signal handle_error publishes to
    prioAtWait,         \* a notification was published while the display task waited
    rendered,           \* what the display shows: the last render until it is cleared
    pubs,               \* notifications published while the display task waited,
                        \* none of them rendered yet (counted up to 2)
    last_seen_id,       \* the fetch task's cursor: the `after` of its next request
    sent,               \* the ClientCommand on the socket that is not yet answered
    conn,               \* the fetch task's socket: polls sent and payloads stored on it,
                        \* and once it is closed what ended the cycle
    \* ---- backend (SpecBackend) ----
    db,                 \* InnerMemoryDb::messages
    utc,                \* the last instant chrono::Utc::now() returned
    inserts,            \* the web requests: the InsertMessage each has built
    hpc,                \* handle_client: "listen" | "command" | "panicked"
    inbox,              \* the command the device wrote that the handler has not read
    served,             \* what the handler wrote to the device's socket, in order
    client,             \* the device polling the backend
    \* ---- listener (SpecListener) ----
    peers,              \* the devices' connections to the listener
    lpc,                \* run: "accept" | the connection handle_client serves | "panicked"
    backlog,            \* connections made that run has not accepted yet, in order
    \* ---- Telegram bot (SpecDialogue) ----
    dialogue,               \* InMemStorage<State>: the State of each chat
    authorized_users,       \* InnerMemoryDb::authorized_users
    telegram_auth_requests, \* InnerMemoryDb::telegram_auth_requests, by requesting user
    handled                 \* the update dispatched last: its sender, the State found,
                            \* the endpoint, and whether the Telegram API calls succeeded

codecVars == <<cpc, order, txKind, tx, wire, rx, rxRead, rxTop, txRes>>
cacheVars == <<now, texts, images, last_message_time, shown, nwrites, lastWrite, fill,
               rotation, rotFrom>>

sessVars == <<last_seen_id, sent, conn>>
devVars == <<fpc, dpc, owner, reply, handling, slot, PRIO_MESSAGE_SIGNAL, prioAtWait, rendered,
             pubs, sessVars>>

lisVars == <<peers, lpc, backlog>>
tgVars == <<dialogue, authorized_users, telegram_auth_requests, handled>>
backVars == <<db, utc, inserts, hpc, inbox, served, client, lisVars, tgVars>>

vars == <<codecVars, cacheVars, devVars, backVars>>

NoValue == [tag |-> "none"]

(***************************************************************************)
(* Program constants.                                                      *)
(***************************************************************************)
TEXT_LINES == 8
TEXT_COLUMNS == 17
TEXT_LENGTH == TEXT_LINES * TEXT_COLUMNS
TEXT_BUFFER_SIZE == TEXT_LENGTH
\* TextLength = u8
TextLength_MAX == 255

(***************************************************************************)
(* Sample values of the wire types.  Identifiers and lifetimes are u32;    *)
(* the samples sit on the boundaries of postcard's varint encoding (1, 2,  *)
(* 3 and 5 bytes) and stay below 2^31, the largest integer TLC handles.    *)
(***************************************************************************)
U32Samples == {0, 127, 128, 16384, 2147483647}
LenSamples == {0, 1, TEXT_BUFFER_SIZE - 1, TEXT_BUFFER_SIZE, TEXT_BUFFER_SIZE + 1, TextLength_MAX}

UpdateKind == {[tag |-> "Image"]} \cup {[tag |-> "Text", len |-> l] : l \in LenSamples}
Update == [lifetime_sec : {0, 128, 2147483647}, id : U32Samples, kind : UpdateKind]
RequestUpdateResult == {[tag |-> "NoUpdate"]} \cup {[tag |-> "Update", update |-> u] : u \in Update}
OptionMessageID == {[tag |-> "None"]} \cup {[tag |-> "Some", id |-> i] : i \in U32Samples}
ClientCommand == {[tag |-> "RequestUpdate", device |-> d, after |-> a] : d \in {0, 300}, a \in OptionMessageID}

(***************************************************************************)
(* postcard's wire format, as the derived Serialize/Deserialize use it:    *)
(* u32 as a LEB128 varint, u8 as one byte, an enum as the varint of its    *)
(* variant index followed by the fields, Option as 0 / 1 + value.          *)
(***************************************************************************)
RECURSIVE varint_enc(_)
varint_enc(n) ==
    IF n < 128 THEN <<n>> ELSE <<(n % 128) + 128>> \o varint_enc(n \div 128)

Pow128(i) == CASE i = 0 -> 1 [] i = 1 -> 128 [] i = 2 -> 16384 [] i = 3 -> 2097152 [] OTHER -> 268435456

DeErr(e) == [ok |-> FALSE, err |-> e]
DeOk(v, next) == [ok |-> TRUE, val |-> v, next |-> next]

\* try_take_varint_u32: at most 5 bytes, the last one at most 0x0F.
RECURSIVE varint_dec(_, _, _, _)
varint_dec(b, pos, i, acc) ==
    IF i >= 5 THEN DeErr("DeserializeBadVarint")
    ELSE IF pos > Len(b) THEN DeErr("DeserializeUnexpectedEnd")
    ELSE IF b[pos] < 128
         THEN IF i = 4 /\ b[pos] > 15
              THEN DeErr("DeserializeBadVarint")
              ELSE DeOk(acc + b[pos] * Pow128(i), pos + 1)
         ELSE varint_dec(b, pos + 1, i + 1, acc + (b[pos] - 128) * Pow128(i))

take_u32(b, pos) == varint_dec(b, pos, 0, 0)

take_u8(b, pos) ==
    IF pos > Len(b) THEN DeErr("DeserializeUnexpectedEnd") ELSE DeOk(b[pos], pos + 1)

ser_UpdateKind(k) ==
    IF k.tag = "Image" THEN varint_enc(0) ELSE varint_enc(1) \o <<k.len>>

ser_Update(u) ==
    varint_enc(u.lifetime_sec) \o varint_enc(u.id) \o ser_UpdateKind(u.kind)

ser_RequestUpdateResult(r) ==
    IF r.tag = "NoUpdate" THEN varint_enc(0) ELSE varint_enc(1) \o ser_Update(r.update)

ser_ClientCommand(c) ==
    varint_enc(0) \o varint_enc(c.device)
        \o (IF c.after.tag = "None" THEN <<0>> ELSE <<1>> \o varint_enc(c.after.id))

de_UpdateKind(b, pos) ==
    LET d == take_u32(b, pos) IN
    IF ~d.ok THEN d
    ELSE IF d.val = 0 THEN DeOk([tag |-> "Image"], d.next)
    ELSE IF d.val = 1
         THEN LET l == take_u8(b, d.next) IN
              IF ~l.ok THEN l ELSE DeOk([tag |-> "Text", len |-> l.val], l.next)
    ELSE DeErr("DeserializeBadEnum")

de_Update(b, pos) ==
    LET lt == take_u32(b, pos) IN
    IF ~lt.ok THEN lt
    ELSE LET id == take_u32(b, lt.next) IN
         IF ~id.ok THEN id
         ELSE LET k == de_UpdateKind(b, id.next) IN
              IF ~k.ok THEN k
              ELSE DeOk([lifetime_sec |-> lt.val, id |-> id.val, kind |-> k.val], k.next)

de_RequestUpdateResult(b) ==
    LET d == take_u32(b, 1) IN
    IF ~d.ok THEN d
    ELSE IF d.val = 0 THEN DeOk([tag |-> "NoUpdate"], d.next)
    ELSE IF d.val = 1
         THEN LET u == de_Update(b, d.next) IN
              IF ~u.ok THEN u ELSE DeOk([tag |-> "Update", update |-> u.val], u.next)
    ELSE DeErr("DeserializeBadEnum")

de_ClientCommand(b) ==
    LET d == take_u32(b, 1) IN
    IF ~d.ok THEN d
    ELSE IF d.val # 0 THEN DeErr("DeserializeBadEnum")
    ELSE LET dev == take_u32(b, d.next) IN
         IF ~dev.ok THEN dev
         ELSE LET o == take_u8(b, dev.next) IN
              IF ~o.ok THEN o
              ELSE IF o.val = 0
                   THEN DeOk([tag |-> "RequestUpdate", device |-> dev.val,
                              after |-> [tag |-> "None"]], o.next)
              ELSE IF o.val = 1
                   THEN LET id == take_u32(b, o.next) IN
                        IF ~id.ok THEN id
                        ELSE DeOk([tag |-> "RequestUpdate", device |-> dev.val,
                                   after |-> [tag |-> "Some", id |-> id.val]], id.next)
              ELSE DeErr("DeserializeBadOption")

\* MaxSize::POSTCARD_MAX_SIZE as derived: u32 -> 5, u8 -> 1, Option<T> -> 1 + T,
\* an enum -> 1 + the largest variant, a struct -> the sum of its fields.
MaxSize_u32 == 1 + 4
MaxSize_UpdateKind == 1 + 1
MaxSize_Update == MaxSize_u32 + MaxSize_u32 + MaxSize_UpdateKind
MaxSize_RequestUpdateResult == 1 + MaxSize_Update
MaxSize_ClientCommand == 1 + (MaxSize_u32 + (1 + MaxSize_u32))

POSTCARD_MAX_SIZE(ty) ==
    IF ty = "command" THEN MaxSize_ClientCommand ELSE MaxSize_RequestUpdateResult

serialize(ty, v) == IF ty = "command" THEN ser_ClientCommand(v) ELSE ser_RequestUpdateResult(v)
deserialize(ty, b) == IF ty = "command" THEN de_ClientCommand(b) ELSE de_RequestUpdateResult(b)

(***************************************************************************)
(* SerDe and Transmission (protocols/pico.rs, mod serialization).          *)
(***************************************************************************)
\* size_of::<Length>() with Length = u16
DATA_START == 2
SERIALIZED_SIZE(ty) == DATA_START + POSTCARD_MAX_SIZE(ty)
BUFFER_SIZE(ty) == SERIALIZED_SIZE(ty)

\* u16::to_ne_bytes / u16::from_ne_bytes on a build of byte order o
to_ne_bytes(o, n) ==
    IF o = "le" THEN <<n % 256, n \div 256>> ELSE <<n \div 256, n % 256>>
from_ne_bytes(o, b0, b1) ==
    IF o = "le" THEN b0 + 256 * b1 ELSE 256 * b0 + b1

\* SerDe::to_bytes whose length field counts the prefix too.
to_bytes_total_len(o, ty, v) ==
    LET data == serialize(ty, v) IN
    to_ne_bytes(o, DATA_START + Len(data)) \o data

\* SerDe::to_bytes: the data after the prefix, then the prefix; the slice written.
to_bytes(o, ty, v) ==
    LET data == serialize(ty, v) IN
    to_ne_bytes(o, Len(data)) \o data

\* SerDe::to_bytes into a buffer of n bytes: the debug assertion on the
\* buffer's length, the slice buf[DATA_START..], postcard::to_slice into it
\* (SerializeBufferFull when the data does not fit), then the prefix.
to_bytes_buf(o, ty, v, n, debug) ==
    IF debug /\ n # SERIALIZED_SIZE(ty) THEN [tag |-> "Panic"]
    ELSE IF n < DATA_START THEN [tag |-> "Panic"]
    ELSE IF Len(serialize(ty, v)) > n - DATA_START
         THEN [tag |-> "Postcard", err |-> "SerializeBufferFull"]
         ELSE [tag |-> "Ok", val |-> to_bytes(o, ty, v)]

\* Transmission::send with a buffer of n bytes: the assertion on the buffer's
\* length, to_bytes, and write_all of the slice it returned.
send(o, ty, v, n, debug) ==
    IF n # BUFFER_SIZE(ty)
    THEN [res |-> [tag |-> "Panic"], written |-> <<>>]
    ELSE IF to_bytes_buf(o, ty, v, n, debug).tag = "Ok"
         THEN [res |-> [tag |-> "Ok"], written |-> to_bytes_buf(o, ty, v, n, debug).val]
         ELSE [res |-> [tag |-> to_bytes_buf(o, ty, v, n, debug).tag], written |-> <<>>]

\* SerDe::from_bytes
from_bytes(ty, b) ==
    LET d == deserialize(ty, b) IN
    IF d.ok THEN [tag |-> "Ok", val |-> d.val] ELSE [tag |-> "Postcard", err |-> d.err]

\* The length check of receive with the prefix forgotten in the comparison.
length_exceeded_no_prefix(ty, data_len) == data_len > BUFFER_SIZE(ty)

\* Transmission::receive, the length check (line 218)
length_exceeded(ty, data_len) == DATA_START + data_len > BUFFER_SIZE(ty)

\* Transmission::receive on a socket holding the bytes s: what it returns, how
\* many bytes it took from the socket and how far it sliced its buffer.
\* read_exact on a stream that ends early is Error::Socket.
receive(o, ty, s) ==
    IF Len(s) < DATA_START
    THEN [res |-> [tag |-> "Socket"], read |-> Len(s), top |-> DATA_START]
    ELSE LET data_len == from_ne_bytes(o, s[1], s[2]) IN
         IF length_exceeded(ty, data_len)
         THEN [res |-> [tag |-> "Length", val |-> data_len, max |-> POSTCARD_MAX_SIZE(ty)],
               read |-> DATA_START, top |-> DATA_START]
         ELSE IF Len(s) < DATA_START + data_len
              THEN [res |-> [tag |-> "Socket"], read |-> Len(s), top |-> DATA_START + data_len]
              ELSE [res |-> from_bytes(ty, SubSeq(s, DATA_START + 1, DATA_START + data_len)),
                    read |-> DATA_START + data_len, top |-> DATA_START + data_len]

(***************************************************************************)
(* The message cache (pico/src/messagebuf.rs).                             *)
(***************************************************************************)
\* The model's cache has TextSlots text slots (messagebuf.rs has
\* TEXT_MESSAGE_NUM = 10 of them) and IMAGE_MESSAGE_NUM image slots; its clock
\* ticks once a second and runs to MaxTime; SpecCache handles MaxWrites updates.
TextSlots == 1
IMAGE_MESSAGE_NUM == 2
MaxTime == 2
MaxWrites == 3

Instant_MIN == 0
Duration_MIN == 0
\* The tasks are spawned after main's start-up delay (main.rs:215), so the
\* clock is past Instant::MIN when they first run.
BootTime == Instant_MIN + 1

\* Payload identities: the id of the message a slot holds, NoMsg for an empty
\* string or a zeroed image, Partial for an image whose transfer broke off.
NoMsg == -1
Partial == -2

\* Duration::from_secs, in ticks of one second
from_secs(sec) == sec

\* lifetime_sec values of the updates the model handles: none, one second,
\* and long enough to stay active until MaxTime.
LifetimeSecs == {0, 1, MaxTime}

MessageMeta_new == [lifetime |-> Duration_MIN, updated_at |-> Instant_MIN]
TextData_new == [len |-> 0, msg |-> NoMsg]
ImageData_new == [msg |-> NoMsg]
Messages_new ==
    [texts |-> [i \in 1..TextSlots |-> [data |-> TextData_new, meta |-> MessageMeta_new]],
     images |-> [i \in 1..IMAGE_MESSAGE_NUM |-> [data |-> ImageData_new, meta |-> MessageMeta_new]]]

\* MessageMeta::is_active with <=: a slot is still active at the instant it expires.
is_active_inclusive(meta, t) == t <= meta.updated_at + meta.lifetime

\* MessageMeta::is_active at Instant::now() = t
\* MessageMeta::is_active with the comparison turned around
is_active_after_expiry(meta, t) == t >= meta.updated_at + meta.lifetime

is_active(meta, t) == t < meta.updated_at + meta.lifetime

\* Message::set_meta at Instant::now() = t
set_meta_keep_lifetime(message, update, t) ==
    [message EXCEPT !.meta.updated_at = t]

set_meta(message, update, t) ==
    [message EXCEPT !.meta = [lifetime |-> from_secs(update.lifetime_sec), updated_at |-> t]]

\* Iterator::min_by_key over the positions S of messages, by meta.updated_at:
\* the first position with the smallest key.
min_by_key(messages, S) ==
    CHOOSE i \in S :
        /\ \A j \in S : messages[j].meta.updated_at >= messages[i].meta.updated_at
        /\ \A j \in S : j < i => messages[j].meta.updated_at > messages[i].meta.updated_at

\* Messages::next_available_message without the search for an inactive slot:
\* always the slot with the smallest updated_at.
next_available_message_oldest(messages, t) == min_by_key(messages, DOMAIN messages)

\* Messages::next_available_message whose min_by_key returns the last of the
\* slots with the smallest updated_at.
next_available_message_last_tie(messages, t) ==
    LET inactive == {i \in DOMAIN messages : ~is_active(messages[i].meta, t)} IN
    IF inactive # {}
    THEN CHOOSE i \in inactive : \A j \in inactive : i <= j
    ELSE CHOOSE i \in DOMAIN messages :
            /\ \A j \in DOMAIN messages : messages[j].meta.updated_at >= messages[i].meta.updated_at
            /\ \A j \in DOMAIN messages : j > i => messages[j].meta.updated_at > messages[i].meta.updated_at

\* Messages::next_available_message with max_by_key: the newest slot is overwritten.
next_available_message_newest(messages, t) ==
    LET inactive == {i \in DOMAIN messages : ~is_active(messages[i].meta, t)} IN
    IF inactive # {}
    THEN CHOOSE i \in inactive : \A j \in inactive : i <= j
    ELSE CHOOSE i \in DOMAIN messages :
            \A j \in DOMAIN messages : messages[j].meta.updated_at <= messages[i].meta.updated_at

\* Messages::next_available_message: the index of the slot to overwrite
next_available_message(messages, t) ==
    LET inactive == {i \in DOMAIN messages : ~is_active(messages[i].meta, t)} IN
    IF inactive # {}
    THEN CHOOSE i \in inactive : \A j \in inactive : i <= j
    ELSE min_by_key(messages, DOMAIN messages)

\* Messages::next_available_text: the slot, and the array with its text cleared
next_available_text(T, t) ==
    LET i == next_available_message(T, t) IN
    [idx |-> i, arr |-> [T EXCEPT ![i].data = TextData_new]]

\* Messages::next_available_image: the slot, and the array with its image zeroed
next_available_image(I, t) ==
    LET i == next_available_message(I, t) IN
    [idx |-> i, arr |-> [I EXCEPT ![i].data = ImageData_new]]

None == [tag |-> "None"]
Some(ref, meta) == [tag |-> "Some", ref |-> ref, meta |-> meta]

\* texts.iter().map(from).chain(images.iter().map(from))
generic_messages(T, I) ==
    [k \in 1..(Len(T) + Len(I)) |->
        IF k <= Len(T)
        THEN [ref |-> [arr |-> "text", idx |-> k], meta |-> T[k].meta]
        ELSE [ref |-> [arr |-> "image", idx |-> k - Len(T)], meta |-> I[k - Len(T)].meta]]

\* Messages::next_display_message_generic whose wrap-around takes
\* max_by_key: the newest active slot instead of the oldest.
next_display_message_generic_wrap_newest(T, I, t, last) ==
    LET messages == generic_messages(T, I)
        newer == {k \in DOMAIN messages :
                    is_active(messages[k].meta, t) /\ messages[k].meta.updated_at > last}
        active == {k \in DOMAIN messages : is_active(messages[k].meta, t)}
    IN IF newer # {}
       THEN LET k == min_by_key(messages, newer) IN Some(messages[k].ref, messages[k].meta)
       ELSE IF active # {}
            THEN LET k == CHOOSE n \in active :
                            \A j \in active : messages[j].meta.updated_at <= messages[n].meta.updated_at
                 IN Some(messages[k].ref, messages[k].meta)
            ELSE None

\* Messages::next_display_message_generic with max_by_key over the newer
\* active slots: the newest of them is returned.
next_display_message_generic_newest(T, I, t, last) ==
    LET messages == generic_messages(T, I)
        newer == {k \in DOMAIN messages :
                    is_active(messages[k].meta, t) /\ messages[k].meta.updated_at > last}
        active == {k \in DOMAIN messages : is_active(messages[k].meta, t)}
    IN IF newer # {}
       THEN LET k == CHOOSE n \in newer :
                        \A j \in newer : messages[j].meta.updated_at <= messages[n].meta.updated_at
            IN Some(messages[k].ref, messages[k].meta)
       ELSE IF active # {}
            THEN LET k == min_by_key(messages, active) IN Some(messages[k].ref, messages[k].meta)
            ELSE None

\* Messages::next_display_message_generic whose wrap-around has no is_active filter.
next_display_message_generic_wrap_any(T, I, t, last) ==
    LET messages == generic_messages(T, I)
        newer == {k \in DOMAIN messages :
                    is_active(messages[k].meta, t) /\ messages[k].meta.updated_at > last}
    IN IF newer # {}
       THEN LET k == min_by_key(messages, newer) IN Some(messages[k].ref, messages[k].meta)
       ELSE LET k == min_by_key(messages, DOMAIN messages) IN Some(messages[k].ref, messages[k].meta)

\* Messages::next_display_message_generic at Instant::now() = t
next_display_message_generic(T, I, t, last) ==
    LET messages == generic_messages(T, I)
        newer == {k \in DOMAIN messages :
                    is_active(messages[k].meta, t) /\ messages[k].meta.updated_at > last}
        active == {k \in DOMAIN messages : is_active(messages[k].meta, t)}
    IN IF newer # {}
       THEN LET k == min_by_key(messages, newer) IN Some(messages[k].ref, messages[k].meta)
       ELSE IF active # {}
            THEN LET k == min_by_key(messages, active) IN Some(messages[k].ref, messages[k].meta)
            ELSE None

\* The slots of both arrays that are active at t.
ActiveRefs(T, I, t) ==
    {[arr |-> "text", idx |-> i] : i \in {j \in DOMAIN T : is_active(T[j].meta, t)}}
        \cup {[arr |-> "image", idx |-> i] : i \in {j \in DOMAIN I : is_active(I[j].meta, t)}}

MetaOf(T, I, ref) == IF ref.arr = "text" THEN T[ref.idx].meta ELSE I[ref.idx].meta

NoWrite == [kind |-> "None"]

\* No socket: before Socket::new and after the socket is dropped.
NoConn == [open |-> FALSE, polls |-> 0, stored |-> 0, end |-> "none"]

\* Web requests the backend handles.
MaxInserts == 2
\* The last instant of the backend's clock.
MaxUtc == 2
\* Polls the device sends.
MaxPolls == 3

\* The device of the backend specification before its first connection.
ClientIdle ==
    [pc |-> "idle", after |-> [tag |-> "None"], cur |-> 0, asked |-> FALSE, read |-> 0, polls |-> 0]

\* Devices that connect to the listener.
Peers == {1, 2}
\* Commands one device sends.
MaxSends == 2

\* A device without a connection.
PeerIdle == [pc |-> "idle", out |-> NoValue, gone |-> FALSE, sends |-> 0, starved |-> "no"]

\* The listener before any connection.
ListenerIdle ==
    /\ peers = [p \in Peers |-> PeerIdle]
    /\ lpc = [tag |-> "accept"]
    /\ backlog = <<>>

\* The users of the bot: the administrator and one other user, each in a
\* private chat.
admin_id == "admin"
TgUsers == {admin_id, "user"}

\* The bot before any update: State::default() for every chat, and the
\* users and requests of InnerMemoryDb::dummy.
TelegramIdle ==
    /\ dialogue = [u \in TgUsers |-> [tag |-> "Unauthorized"]]
    /\ authorized_users = {admin_id}
    /\ telegram_auth_requests = {}
    /\ handled = NoValue

\* No backend: an empty repository, no request, no connection.
BackendIdle ==
    /\ ListenerIdle
    /\ TelegramIdle
    /\ db = <<>>
    /\ utc = 0
    /\ inserts = [r \in 1..MaxInserts |-> [pc |-> "idle"]]
    /\ hpc = "listen"
    /\ inbox = NoValue
    /\ served = <<>>
    /\ client = ClientIdle

\* The cache and the display task's locals right after construction.
CacheIdle ==
    /\ now = BootTime
    /\ texts = Messages_new.texts
    /\ images = Messages_new.images
    /\ last_message_time = Instant_MIN
    /\ shown = None
    /\ nwrites = 0
    /\ lastWrite = NoWrite
    /\ fill = [k \in {"Text", "Image"} |-> [n |-> 0, kept |-> TRUE]]
    /\ rotation = <<>>
    /\ rotFrom = Instant_MIN
    /\ fpc = "connect"
    /\ dpc = "lock"
    /\ owner = "none"
    /\ reply = NoValue
    /\ handling = NoValue
    /\ slot = NoValue
    /\ PRIO_MESSAGE_SIGNAL = NoValue
    /\ prioAtWait = FALSE
    /\ rendered = NoValue
    /\ pubs = 0
    /\ last_seen_id = [tag |-> "None"]
    /\ sent = NoValue
    /\ conn = NoConn

(***************************************************************************)
(* SpecCodec: a sender encodes a value (or a peer writes a raw frame), the *)
(* receiver runs Transmission::receive for the type it expects.            *)
(***************************************************************************)
\* Bytes a peer may put in the length field, and what may follow them.
RawLenBytes == {0, 1, 13, 14, 15, 255}
RawTails == {<<>>, <<0, 0>>, <<1, 1, 1, 0, 0, 0, 0, 0, 0, 0, 0, 0, 0, 0, 0, 0, 0, 0, 0, 0>>}

CodecInit ==
    /\ cpc = "idle"
    /\ order \in {"le", "be"}
    /\ txKind = "raw"
    /\ tx = NoValue
    /\ wire = <<>>
    /\ rx = NoValue
    /\ rxRead = 0
    /\ rxTop = 0
    /\ txRes = NoValue
    /\ CacheIdle
    /\ BackendIdle

\* Transmission::send of a ClientCommand
SendCommand ==
    /\ cpc = "idle"
    /\ \E c \in ClientCommand :
        /\ tx' = c
        /\ wire' = to_bytes(order, "command", c)
    /\ txKind' = "command"
    /\ cpc' = "sent"
    /\ UNCHANGED <<order, rx, rxRead, rxTop, txRes>>
    /\ UNCHANGED <<cacheVars, devVars, backVars>>

\* Transmission::send of a RequestUpdateResult
SendResult ==
    /\ cpc = "idle"
    /\ \E r \in RequestUpdateResult :
        /\ tx' = r
        /\ wire' = to_bytes(order, "result", r)
    /\ txKind' = "result"
    /\ cpc' = "sent"
    /\ UNCHANGED <<order, rx, rxRead, rxTop, txRes>>
    /\ UNCHANGED <<cacheVars, devVars, backVars>>

\* A peer that does not follow the protocol writes any length field.
SendRaw ==
    /\ cpc = "idle"
    /\ \E b0 \in RawLenBytes, b1 \in RawLenBytes, t \in RawTails :
        wire' = <<b0, b1>> \o t
    /\ tx' = NoValue
    /\ txKind' = "raw"
    /\ cpc' = "sent"
    /\ UNCHANGED <<order, rx, rxRead, rxTop, txRes>>
    /\ UNCHANGED <<cacheVars, devVars, backVars>>

\* Transmission::receive for the type the receiver expects: the type that was
\* sent, or either type for a raw frame.
Receive ==
    /\ cpc = "sent"
    /\ \E ty \in {"command", "result"} :
        /\ txKind \in {ty, "raw"}
        /\ LET r == receive(order, ty, wire) IN
            /\ rx' = [ty |-> ty, res |-> r.res]
            /\ rxRead' = r.read
            /\ rxTop' = r.top
    /\ cpc' = "received"
    /\ UNCHANGED <<order, txKind, tx, wire, txRes>>
    /\ UNCHANGED <<cacheVars, devVars, backVars>>

\* A caller passes to_bytes, directly or through Transmission::send, a
\* buffer shorter than SERIALIZED_SIZE, in a build with or without debug
\* assertions.  A panic ends the program; nothing reaches the socket unless
\* send gets to its write_all.
EncodeShort ==
    /\ cpc = "idle"
    /\ \E ty \in {"command", "result"}, debug \in BOOLEAN, via \in {"send", "to_bytes"} :
       \E n \in 0..(SERIALIZED_SIZE(ty) - 1) :
       \E v \in (IF ty = "command" THEN ClientCommand ELSE RequestUpdateResult) :
        /\ tx' = v
        /\ txKind' = ty
        /\ IF via = "send"
           THEN /\ txRes' = [buf |-> n, via |-> via, res |-> send(order, ty, v, n, debug).res]
                /\ wire' = send(order, ty, v, n, debug).written
           ELSE /\ txRes' = [buf |-> n, via |-> via,
                             res |-> [tag |-> to_bytes_buf(order, ty, v, n, debug).tag]]
                /\ wire' = <<>>
    /\ cpc' = "encoded"
    /\ UNCHANGED <<order, rx, rxRead, rxTop>>
    /\ UNCHANGED <<cacheVars, devVars, backVars>>

\* The connection is dropped and the next frame starts on a fresh one.
CodecReset ==
    /\ \/ cpc = "received"
       \/ cpc = "encoded" /\ txRes.res.tag # "Panic"
    /\ cpc' = "idle"
    /\ txKind' = "raw"
    /\ tx' = NoValue
    /\ wire' = <<>>
    /\ rx' = NoValue
    /\ rxRead' = 0
    /\ rxTop' = 0
    /\ txRes' = NoValue
    /\ UNCHANGED order
    /\ UNCHANGED <<cacheVars, devVars, backVars>>

CodecNext == SendCommand \/ SendResult \/ SendRaw \/ EncodeShort \/ Receive \/ CodecReset

SpecCodec == CodecInit /\ [][CodecNext]_vars

(***************************************************************************)
(* C1: for every ClientCommand and every RequestUpdateResult value v       *)
(* (NoUpdate, Update with Image, Update with Text(len), any id, any        *)
(* lifetime, cursor present or absent), receiving the bytes that send      *)
(* wrote returns exactly v.                                                *)
(***************************************************************************)
C1_RoundTrip ==
    (cpc = "received" /\ tx # NoValue) => rx.res = [tag |-> "Ok", val |-> tx]

\* A Text update of the largest valid length with a 5-byte id and a 2-byte
\* lifetime was sent and received.
C1_Witness ==
    /\ cpc = "received"
    /\ tx = [tag |-> "Update",
             update |-> [lifetime_sec |-> 128, id |-> 2147483647,
                         kind |-> [tag |-> "Text", len |-> TEXT_BUFFER_SIZE]]]
    /\ rx.res.tag = "Ok"

(***************************************************************************)
(* C2: when the length field read by receive exceeds the maximum encoded   *)
(* size of the expected type, receive returns Error::Length with the       *)
(* received length and the maximum, takes no payload byte from the socket  *)
(* and never slices its buffer beyond BUFFER_SIZE.                         *)
(***************************************************************************)
C2_BoundsRejection ==
    cpc = "received" =>
        /\ rxTop <= BUFFER_SIZE(rx.ty)
        /\ (Len(wire) >= 2 /\ from_ne_bytes(order, wire[1], wire[2]) > POSTCARD_MAX_SIZE(rx.ty)) =>
              /\ rx.res = [tag |-> "Length",
                           val |-> from_ne_bytes(order, wire[1], wire[2]),
                           max |-> POSTCARD_MAX_SIZE(rx.ty)]
              /\ rxRead = DATA_START

\* A frame declaring one byte more than the maximum, with payload bytes
\* waiting on the socket, was rejected.
C2_Witness ==
    /\ cpc = "received"
    /\ rx.ty = "result"
    /\ Len(wire) > DATA_START + MaxSize_RequestUpdateResult
    /\ from_ne_bytes(order, wire[1], wire[2]) = MaxSize_RequestUpdateResult + 1
    /\ rx.res.tag = "Length"
    /\ rxRead = DATA_START

(***************************************************************************)
(* SpecCache: updates are written into the cache as Socket::handle_update  *)
(* does, time passes, and the display task looks up what to show next.     *)
(***************************************************************************)
\* How handling an update ends: the payload was stored, or the read (or the
\* UTF-8 check of a text) failed.
Outcomes == {"ok", "failed"}

\* Socket::handle_update, UpdateKind::Text, with the buffer set to its full
\* capacity instead of the length of the update
handle_update_text_select_full_len(T, upd, t) ==
    LET sel == next_available_text(T, t)
        message == set_meta(sel.arr[sel.idx], upd, t)
    IN [idx |-> sel.idx,
        arr |-> [sel.arr EXCEPT ![sel.idx] =
                    [message EXCEPT !.data = [len |-> TEXT_BUFFER_SIZE, msg |-> Partial]]]]

\* Socket::handle_update, UpdateKind::Text, up to the await of the payload:
\* the slot is selected, its meta updated and its buffer set to the length
\* of the update, the bytes not yet received.
handle_update_text_select(T, upd, t) ==
    LET sel == next_available_text(T, t)
        message == set_meta(sel.arr[sel.idx], upd, t)
    IN [idx |-> sel.idx,
        arr |-> [sel.arr EXCEPT ![sel.idx] =
                    [message EXCEPT !.data = [len |-> upd.kind.len, msg |-> Partial]]]]

\* Socket::handle_update, UpdateKind::Text, after the await, without the
\* message_buf.clear() of the two failure paths
handle_update_text_store_no_clear(T, idx, upd, outcome) ==
    [T EXCEPT ![idx].data =
        IF outcome = "ok" THEN [len |-> upd.kind.len, msg |-> upd.id] ELSE @]

\* Socket::handle_update, UpdateKind::Text, after the await: the text is
\* kept, or the buffer is cleared when the read or the UTF-8 check failed.
handle_update_text_store(T, idx, upd, outcome) ==
    [T EXCEPT ![idx].data =
        IF outcome = "ok" THEN [len |-> upd.kind.len, msg |-> upd.id] ELSE TextData_new]

\* Socket::handle_update, UpdateKind::Text: the slot and the texts after it
handle_update_text(T, upd, t, outcome) ==
    LET sel == handle_update_text_select(T, upd, t)
    IN [idx |-> sel.idx, arr |-> handle_update_text_store(sel.arr, sel.idx, upd, outcome)]

\* Socket::handle_update, UpdateKind::Image, up to the await of the payload
handle_update_image_select(I, upd, t) ==
    LET sel == next_available_image(I, t)
        message == set_meta(sel.arr[sel.idx], upd, t)
    IN [idx |-> sel.idx, arr |-> [sel.arr EXCEPT ![sel.idx] = message]]

\* Socket::handle_update, UpdateKind::Image, after the await: read_exact
\* filled the image buffer, or left it partly overwritten.
handle_update_image_store(I, idx, upd, outcome) ==
    [I EXCEPT ![idx].data = IF outcome = "ok" THEN [msg |-> upd.id] ELSE [msg |-> Partial]]

\* Socket::handle_update, UpdateKind::Image: the slot and the images after it
handle_update_image(I, upd, t, outcome) ==
    LET sel == handle_update_image_select(I, upd, t)
    IN [idx |-> sel.idx, arr |-> handle_update_image_store(sel.arr, sel.idx, upd, outcome)]

NumActive(arr, t) == Cardinality({i \in DOMAIN arr : is_active(arr[i].meta, t)})

\* The bookkeeping of a write of `kind` that found the array `pre`.
Written(kind, pre, idx, upd, outcome) ==
    /\ nwrites' = nwrites + 1
    /\ lastWrite' = [kind |-> kind, idx |-> idx, pre |-> pre, id |-> upd.id,
                     lifetime_sec |-> upd.lifetime_sec, ok |-> outcome = "ok"]
    /\ fill' = [fill EXCEPT ![kind] =
                 [n |-> IF fill[kind].n <= Len(pre) THEN fill[kind].n + 1 ELSE fill[kind].n,
                  kept |-> /\ fill[kind].kept
                           /\ outcome = "ok"
                           /\ fill[kind].n <= Len(pre)
                           /\ NumActive(pre, now) = fill[kind].n]]

\* handle_update of a Text update with id `id`
WriteText(id, lt, outcome) ==
    LET upd == [lifetime_sec |-> lt, id |-> id,
                kind |-> [tag |-> "Text", len |-> TEXT_BUFFER_SIZE]]
    IN handle_update_text(texts, upd, now, outcome)

\* handle_update of an Image update with id `id`
WriteImage(id, lt, outcome) ==
    LET upd == [lifetime_sec |-> lt, id |-> id, kind |-> [tag |-> "Image"]]
    IN handle_update_image(images, upd, now, outcome)

CodecIdle ==
    /\ cpc = "idle"
    /\ order = "le"
    /\ txKind = "raw"
    /\ tx = NoValue
    /\ wire = <<>>
    /\ rx = NoValue
    /\ rxRead = 0
    /\ rxTop = 0
    /\ txRes = NoValue

displayVars == <<last_message_time, shown, rotation, rotFrom>>
writeVars == <<nwrites, lastWrite, fill>>

CacheWriteText ==
    /\ nwrites < MaxWrites
    /\ \E lt \in LifetimeSecs, outcome \in Outcomes :
        LET w == WriteText(nwrites, lt, outcome) IN
        /\ texts' = w.arr
        /\ Written("Text", texts, w.idx, [id |-> nwrites, lifetime_sec |-> lt], outcome)
    /\ UNCHANGED <<now, images>>
    /\ UNCHANGED <<displayVars, codecVars, devVars, backVars>>

CacheWriteImage ==
    /\ nwrites < MaxWrites
    /\ \E lt \in LifetimeSecs, outcome \in Outcomes :
        LET w == WriteImage(nwrites, lt, outcome) IN
        /\ images' = w.arr
        /\ Written("Image", images, w.idx, [id |-> nwrites, lifetime_sec |-> lt], outcome)
    /\ UNCHANGED <<now, texts>>
    /\ UNCHANGED <<displayVars, codecVars, devVars, backVars>>

\* The clock advances by one tick.
CacheTick ==
    /\ now < MaxTime
    /\ now' = now + 1
    /\ UNCHANGED <<texts, images>>
    /\ UNCHANGED <<writeVars, displayVars, codecVars, devVars, backVars>>

CacheInit == CacheIdle /\ CodecIdle /\ BackendIdle

CacheNext == CacheWriteText \/ CacheWriteImage \/ CacheTick

SpecCache == CacheInit /\ [][CacheNext]_vars

(***************************************************************************)
(* SpecRotation: the display task's chained next-to-display calls over a   *)
(* cache that is written and ages.  The payload plays no part in it: every *)
(* update has id 0 and is stored (an update whose payload fails leaves the *)
(* same freshness behind).                                                 *)
(***************************************************************************)
RotWriteText ==
    /\ \E lt \in LifetimeSecs :
        texts' = WriteText(0, lt, "ok").arr
    /\ rotation' = <<>>
    /\ rotFrom' = last_message_time
    /\ UNCHANGED <<now, images, last_message_time, shown>>
    /\ UNCHANGED <<writeVars, codecVars, devVars, backVars>>

RotWriteImage ==
    /\ \E lt \in LifetimeSecs :
        images' = WriteImage(0, lt, "ok").arr
    /\ rotation' = <<>>
    /\ rotFrom' = last_message_time
    /\ UNCHANGED <<now, texts, last_message_time, shown>>
    /\ UNCHANGED <<writeVars, codecVars, devVars, backVars>>

\* The clock advances by one tick; a chain of display calls ends when a slot expires.
RotTick ==
    /\ now < MaxTime
    /\ now' = now + 1
    /\ IF ActiveRefs(texts, images, now + 1) = ActiveRefs(texts, images, now)
       THEN UNCHANGED <<rotation, rotFrom>>
       ELSE rotation' = <<>> /\ rotFrom' = last_message_time
    /\ UNCHANGED <<texts, images, last_message_time, shown>>
    /\ UNCHANGED <<writeVars, codecVars, devVars, backVars>>

\* display_messages_task: the lookup and the update of last_message_time
\* (main.rs:182-183); with nothing to show last_message_time stays.
RotDisplay ==
    /\ LET next_message == next_display_message_generic(texts, images, now, last_message_time) IN
        /\ shown' = next_message
        /\ last_message_time' =
              IF next_message.tag = "Some" THEN next_message.meta.updated_at ELSE last_message_time
        /\ rotation' =
              IF next_message.tag = "Some" /\ Len(rotation) <= Len(texts) + Len(images)
              THEN Append(rotation, next_message.ref)
              ELSE rotation
    /\ UNCHANGED <<now, texts, images, rotFrom>>
    /\ UNCHANGED <<writeVars, codecVars, devVars, backVars>>

RotNext == RotWriteText \/ RotWriteImage \/ RotTick \/ RotDisplay

SpecRotation == CacheInit /\ [][RotNext]_vars

(***************************************************************************)
(* Spec: fetch_data_task and display_messages_task on the single-threaded  *)
(* executor, sharing Messages behind the MESSAGES mutex.  A task runs from *)
(* one await to the next; each action below is one such run.               *)
(***************************************************************************)
\* The server offers MaxUpdates updates, then has nothing new.
MaxUpdates == 1

Ok(v) == [tag |-> "Ok", val |-> v]
Err(e) == [tag |-> "Err", err |-> e]

\* RequestUpdateResult::check_valid with an off-by-one bound
check_valid_off_by_one(r) ==
    IF r.tag = "Update" /\ r.update.kind.tag = "Text" /\ r.update.kind.len > TEXT_BUFFER_SIZE + 1
    THEN Err([tag |-> "Length", val |-> r.update.kind.len, max |-> TEXT_BUFFER_SIZE])
    ELSE Ok(<<>>)

\* RequestUpdateResult::check_valid
check_valid(r) ==
    IF r.tag = "NoUpdate" THEN Ok(<<>>)
    ELSE IF r.update.kind.tag = "Image" THEN Ok(<<>>)
    ELSE IF r.update.kind.len > TEXT_BUFFER_SIZE
         THEN Err([tag |-> "Length", val |-> r.update.kind.len, max |-> TEXT_BUFFER_SIZE])
         ELSE Ok(<<>>)

\* Socket::request_update, the end: the received value is returned unless
\* check_valid found it invalid.
request_update_valid(result, valid) ==
    [got |-> result,
     res |-> IF valid.tag = "Err"
             THEN Err([tag |-> "ServerMessage", protocol |-> valid.err])
             ELSE Ok(result.val)]

\* Socket::request_update, from the return of RequestUpdateResult::receive:
\* its error is passed on (the ? operator), its value is validated.
request_update_received(result) ==
    IF result.tag # "Ok"
    THEN [got |-> result, res |-> Err(result)]
    ELSE request_update_valid(result, check_valid(result.val))

\* Socket::request_update once the command is sent: `got` is what
\* RequestUpdateResult::receive returned for the bytes s on the socket,
\* `res` what request_update returns.
request_update(o, s) == request_update_received(receive(o, "result", s).res)

\* Error::to_display_string
to_display_string(e) ==
    CASE e.tag = "ServerConnect" -> "Can't connect to server. Please check Wifi connection."
      [] e.tag = "Socket" -> "Internal socket error."
      [] e.tag = "Postcard" -> "Internal serialization error."
      [] OTHER -> "Malformed message from server."

\* handle_error: the error's display text replaces whatever the signal held.
handle_error(e) == [tag |-> "Some", msg |-> to_display_string(e)]

\* The error is published; the display task may be waiting for its interval.
Publish(e) ==
    /\ PRIO_MESSAGE_SIGNAL' = handle_error(e)
    /\ prioAtWait' = (prioAtWait \/ dpc = "wait")
    /\ pubs' = IF dpc # "wait" THEN pubs ELSE IF pubs < 2 THEN pubs + 1 ELSE 2

NoPublish == UNCHANGED <<PRIO_MESSAGE_SIGNAL, prioAtWait, pubs>>

\* DEVICE_ID, what device_id() reads from the static data: 0xcafebabe, by
\* its four bytes
DEVICE_ID == <<202, 254, 186, 190>>

\* Socket::request_update: the command it builds, without the cursor
request_update_command_no_cursor(after) ==
    [tag |-> "RequestUpdate", device |-> DEVICE_ID, after |-> [tag |-> "None"]]

\* Socket::request_update: the command it builds
request_update_command(after) ==
    [tag |-> "RequestUpdate", device |-> DEVICE_ID, after |-> after]

\* The cursor after the payload of the update `id` was stored:
\* max(last_seen_id, id).
last_seen_id_max(cursor, id) ==
    IF cursor.tag = "None" \/ cursor.id < id THEN [tag |-> "Some", id |-> id] ELSE cursor

IMAGE_WIDTH == 160
IMAGE_HEIGHT == 128
IMAGE_BYTES_PER_PIXEL == 2
IMAGE_BUFFER_SIZE == IMAGE_HEIGHT * IMAGE_WIDTH * IMAGE_BYTES_PER_PIXEL

\* UpdateKind::size
size(kind) == IF kind.tag = "Image" THEN IMAGE_BUFFER_SIZE ELSE kind.len

\* The socket once its cycle ended by `end` and the block dropped it.
Closed(end) == [NoConn EXCEPT !.end = end]

\* What the server may answer a RequestUpdate with: while it has one, an
\* update with the next id, an image, a text of one byte or a text that
\* fills the text buffer;
\* at any time no update, or an update whose text length is beyond the text
\* buffer; a frame whose length field is too large; nothing.
ServerReplies ==
    LET updates(lens, images_too) ==
          {[tag |-> "Update", update |-> [lifetime_sec |-> lt, id |-> nwrites, kind |-> k]] :
              lt \in {1, MaxTime},
              k \in {[tag |-> "Text", len |-> l] : l \in lens}
                      \cup (IF images_too THEN {[tag |-> "Image"]} ELSE {})}
    IN {[tag |-> "NoUpdate"]}
         \cup updates({TEXT_BUFFER_SIZE + 1, TextLength_MAX}, FALSE)
         \cup (IF nwrites < MaxUpdates THEN updates({1, TEXT_BUFFER_SIZE}, TRUE) ELSE {})

ServerFrames ==
    {to_bytes(order, "result", r) : r \in ServerReplies}
      \cup {to_ne_bytes(order, MaxSize_RequestUpdateResult + 1), <<>>}

\* The display task runs between acquiring the guard and its Timer::after;
\* until then the executor polls no other task.
FetchPolled == dpc # "render"

\* fetch_data_task: Socket::new, the connect succeeded or failed.
FetchConnect ==
    /\ fpc = "connect" /\ FetchPolled
    /\ \/ /\ fpc' = "request_send"
          /\ conn' = [NoConn EXCEPT !.open = TRUE]
          /\ NoPublish
       \/ /\ Publish([tag |-> "ServerConnect"])
          /\ fpc' = "error_wait"
          /\ UNCHANGED conn
    /\ UNCHANGED <<dpc, owner, reply, handling, slot, rendered, last_seen_id, sent>>
    /\ UNCHANGED <<cacheVars, codecVars, backVars>>

\* fetch_data_task: Timer::after(SERVER_CONNECT_ERROR_WAIT) elapsed.
FetchRetry ==
    /\ fpc = "error_wait" /\ FetchPolled
    /\ fpc' = "connect"
    /\ UNCHANGED <<dpc, owner, reply, handling, slot, rendered, sessVars>>
    /\ NoPublish
    /\ UNCHANGED <<cacheVars, codecVars, backVars>>

\* Socket::request_update: command.send wrote the command, or failed.
FetchRequestSend ==
    /\ fpc = "request_send" /\ FetchPolled
    /\ \/ /\ fpc' = "request_recv"
          /\ sent' = request_update_command(last_seen_id)
          /\ conn' = [conn EXCEPT !.polls = @ + 1]
          /\ UNCHANGED reply
          /\ NoPublish
       \/ /\ reply' = [got |-> NoValue, res |-> Err([tag |-> "Socket"])]
          /\ Publish([tag |-> "Socket"])
          /\ fpc' = "sleep"
          /\ conn' = Closed("failure")
          /\ UNCHANGED sent
    /\ UNCHANGED <<dpc, owner, handling, slot, rendered, last_seen_id>>
    /\ UNCHANGED <<cacheVars, codecVars, backVars>>

\* fetch_data_task, but it polls again on the connection when nothing is new.
FetchDispatch_poll_on(r) ==
    /\ reply' = r
    /\ sent' = NoValue
    /\ IF r.res.tag = "Err"
       THEN /\ Publish(r.res.err)
            /\ fpc' = "sleep"
            /\ conn' = Closed("failure")
            /\ UNCHANGED handling
       ELSE IF r.res.val.tag = "NoUpdate"
       THEN /\ fpc' = "request_send"
            /\ UNCHANGED <<handling, conn>>
            /\ NoPublish
       ELSE /\ fpc' = "lock"
            /\ handling' = r.res.val.update
            /\ UNCHANGED conn
            /\ NoPublish

\* fetch_data_task goes on by what request_update returned: an update to
\* handle, nothing new, or an error; the socket is dropped when the cycle ends.
FetchDispatch(r) ==
    /\ reply' = r
    /\ sent' = NoValue
    /\ IF r.res.tag = "Err"
       THEN /\ Publish(r.res.err)
            /\ fpc' = "sleep"
            /\ conn' = Closed("failure")
            /\ UNCHANGED handling
       ELSE IF r.res.val.tag = "NoUpdate"
       THEN /\ fpc' = "sleep"
            /\ conn' = Closed("NoUpdate")
            /\ UNCHANGED handling
            /\ NoPublish
       ELSE /\ fpc' = "lock"
            /\ handling' = r.res.val.update
            /\ UNCHANGED conn
            /\ NoPublish

\* Socket::request_update: the reply was received and validated.
FetchRequestRecv ==
    /\ fpc = "request_recv" /\ FetchPolled
    /\ \E s \in ServerFrames : FetchDispatch(request_update(order, s))
    /\ UNCHANGED <<dpc, owner, slot, rendered, last_seen_id>>
    /\ UNCHANGED <<cacheVars, codecVars, backVars>>

\* Socket::handle_update: MESSAGES.lock() returned the guard; the slot is
\* selected and prepared, and the task awaits the payload holding the guard.
FetchLock ==
    /\ fpc = "lock" /\ FetchPolled
    /\ owner = "none"
    /\ owner' = "fetch"
    /\ IF handling.kind.tag = "Text"
       THEN LET sel == handle_update_text_select(texts, handling, now) IN
            /\ texts' = sel.arr
            /\ slot' = [arr |-> "text", idx |-> sel.idx, buf |-> sel.arr[sel.idx].data.len]
            /\ UNCHANGED images
       ELSE LET sel == handle_update_image_select(images, handling, now) IN
            /\ images' = sel.arr
            /\ slot' = [arr |-> "image", idx |-> sel.idx, buf |-> IMAGE_BUFFER_SIZE]
            /\ UNCHANGED texts
    /\ nwrites' = nwrites + 1
    /\ fpc' = "payload"
    /\ UNCHANGED <<dpc, reply, handling, rendered, sessVars>>
    /\ NoPublish
    /\ UNCHANGED <<now, lastWrite, fill, displayVars, codecVars, backVars>>

\* Socket::handle_update returns and its guard is not dropped.
handle_update_return_keep_guard ==
    /\ owner' = owner
    /\ handling' = NoValue
    /\ slot' = NoValue

\* Socket::handle_update returns and its guard is dropped.
handle_update_return ==
    /\ owner' = "none"
    /\ handling' = NoValue
    /\ slot' = NoValue

\* Socket::handle_update returns an error with the guard still held.
FetchPayload_guard_leak ==
    /\ fpc = "payload" /\ FetchPolled
    /\ IF slot.arr = "text"
       THEN /\ texts' = handle_update_text_store(texts, slot.idx, handling, "failed")
            /\ UNCHANGED images
       ELSE /\ images' = handle_update_image_store(images, slot.idx, handling, "failed")
            /\ UNCHANGED texts
    /\ Publish([tag |-> "Socket"])
    /\ fpc' = "sleep"
    /\ conn' = Closed("failure")
    /\ handling' = NoValue
    /\ slot' = NoValue
    /\ UNCHANGED <<dpc, owner, reply, rendered, last_seen_id, sent>>
    /\ UNCHANGED <<now, writeVars, displayVars, codecVars, backVars>>

\* Socket::handle_update: receive_payload returned; the payload is stored
\* and the task asks for the next update, or the read (or the UTF-8 check
\* of a text) failed and the error is handled.
FetchPayload ==
    /\ fpc = "payload" /\ FetchPolled
    /\ \E outcome \in Outcomes :
        /\ IF slot.arr = "text"
           THEN /\ texts' = handle_update_text_store(texts, slot.idx, handling, outcome)
                /\ UNCHANGED images
           ELSE /\ images' = handle_update_image_store(images, slot.idx, handling, outcome)
                /\ UNCHANGED texts
        /\ IF outcome = "ok"
           THEN /\ fpc' = "request_send"
                /\ last_seen_id' = last_seen_id_max(last_seen_id, handling.id)
                /\ conn' = [conn EXCEPT !.stored = @ + 1]
                /\ NoPublish
           ELSE /\ Publish([tag |-> "Socket"])
                /\ fpc' = "sleep"
                /\ conn' = Closed("failure")
                /\ UNCHANGED last_seen_id
    /\ handle_update_return
    /\ UNCHANGED <<dpc, reply, rendered, sent>>
    /\ UNCHANGED <<now, writeVars, displayVars, codecVars, backVars>>

\* fetch_data_task: Timer::after(MESSAGE_FETCH_INTERVAL) elapsed.
FetchWake ==
    /\ fpc = "sleep" /\ FetchPolled
    /\ fpc' = "connect"
    /\ reply' = NoValue
    /\ conn' = NoConn
    /\ UNCHANGED <<dpc, owner, handling, slot, rendered, last_seen_id, sent>>
    /\ NoPublish
    /\ UNCHANGED <<cacheVars, codecVars, backVars>>

\* display_messages_task, but a lookup that finds nothing starts the
\* rotation over from Instant::MIN.
DisplayLookup_reset_on_none ==
    /\ dpc = "lock"
    /\ owner = "none"
    /\ owner' = "display"
    /\ LET next_message == next_display_message_generic(texts, images, now, last_message_time) IN
        /\ shown' = next_message
        /\ last_message_time' =
              IF next_message.tag = "Some" THEN next_message.meta.updated_at ELSE Instant_MIN
    /\ dpc' = "render"
    /\ UNCHANGED <<fpc, reply, handling, slot, rendered, sessVars>>
    /\ NoPublish
    /\ UNCHANGED <<now, texts, images, writeVars, rotation, rotFrom, codecVars, backVars>>

\* display_messages_task: MESSAGES.lock() returned the guard; the lookup
\* and the update of last_message_time.
DisplayLookup ==
    /\ dpc = "lock"
    /\ owner = "none"
    /\ owner' = "display"
    /\ LET next_message == next_display_message_generic(texts, images, now, last_message_time) IN
        /\ shown' = next_message
        /\ last_message_time' =
              IF next_message.tag = "Some" THEN next_message.meta.updated_at ELSE last_message_time
    /\ dpc' = "render"
    /\ UNCHANGED <<fpc, reply, handling, slot, rendered, sessVars>>
    /\ NoPublish
    /\ UNCHANGED <<now, texts, images, writeVars, rotation, rotFrom, codecVars, backVars>>

\* display_messages_task: the draw ends and the guard stays held into the wait.
DisplayRender_keep_guard ==
    /\ dpc = "render"
    /\ rendered' = [src |-> "rotation", afterPrio |-> prioAtWait, pubs |-> pubs]
    /\ prioAtWait' = FALSE
    /\ dpc' = "wait"
    /\ pubs' = 0
    /\ UNCHANGED <<fpc, owner, reply, handling, slot, PRIO_MESSAGE_SIGNAL, sessVars>>
    /\ UNCHANGED <<cacheVars, codecVars, backVars>>

\* display_messages_task: the message is drawn from the borrowed slot, the
\* block ends and the guard is dropped; the task awaits its Timer.
DisplayRender ==
    /\ dpc = "render"
    /\ rendered' = [src |-> "rotation", afterPrio |-> prioAtWait, pubs |-> pubs]
    /\ prioAtWait' = FALSE
    /\ owner' = "none"
    /\ dpc' = "wait"
    /\ pubs' = 0
    /\ UNCHANGED <<fpc, reply, handling, slot, PRIO_MESSAGE_SIGNAL, sessVars>>
    /\ UNCHANGED <<cacheVars, codecVars, backVars>>

\* display_messages_task: Timer::after(MESSAGE_DISPLAY_DURATION) elapsed,
\* the display is cleared and the loop starts over.
DisplayWake ==
    /\ dpc = "wait"
    /\ dpc' = "lock"
    /\ rendered' = NoValue
    /\ UNCHANGED <<fpc, owner, reply, handling, slot, sessVars>>
    /\ NoPublish
    /\ UNCHANGED <<cacheVars, codecVars, backVars>>

\* The clock advances by one tick.
Tick ==
    /\ now < MaxTime
    /\ now' = now + 1
    /\ UNCHANGED <<texts, images, writeVars, displayVars, codecVars, devVars, backVars>>

Init == CacheInit

Next ==
    \/ FetchConnect \/ FetchRetry \/ FetchRequestSend \/ FetchRequestRecv
    \/ FetchLock \/ FetchPayload \/ FetchWake
    \/ DisplayLookup \/ DisplayRender \/ DisplayWake
    \/ Tick

Spec == Init /\ [][Next]_vars

SlotsOf(kind) == IF kind = "Text" THEN texts ELSE images

(***************************************************************************)
(* C3: request_update rejects a received Update of kind Text(len) with     *)
(* len > TEXT_BUFFER_SIZE with the length error and accepts every len <=   *)
(* TEXT_BUFFER_SIZE; handle_update selects a slot and sets its length only *)
(* for an update request_update accepted, and the length of every text     *)
(* slot is at most TEXT_BUFFER_SIZE.                                       *)
(***************************************************************************)
C3_LengthValidated ==
    /\ \A i \in DOMAIN texts : texts[i].data.len <= TEXT_BUFFER_SIZE
    /\ fpc \in {"lock", "payload"} =>
          /\ reply.res = Ok([tag |-> "Update", update |-> handling])
          /\ handling.kind.tag = "Text" => handling.kind.len <= TEXT_BUFFER_SIZE
    /\ (reply # NoValue /\ reply.got # NoValue /\ reply.got.tag = "Ok"
            /\ reply.got.val.tag = "Update" /\ reply.got.val.update.kind.tag = "Text") =>
          LET len == reply.got.val.update.kind.len IN
          IF len > TEXT_BUFFER_SIZE
          THEN /\ reply.res = Err([tag |-> "ServerMessage",
                                   protocol |-> [tag |-> "Length", val |-> len,
                                                 max |-> TEXT_BUFFER_SIZE]])
               /\ fpc = "sleep"
               /\ handling = NoValue
          ELSE reply.res = Ok(reply.got.val)

\* A text of TEXT_BUFFER_SIZE bytes was stored in a slot, and a later update
\* announcing one byte more was rejected.
C3_Witness ==
    /\ \E i \in DOMAIN texts :
          texts[i].data.len = TEXT_BUFFER_SIZE /\ texts[i].data.msg \notin {NoMsg, Partial}
    /\ reply # NoValue
    /\ reply.res.tag = "Err"
    /\ reply.res.err.tag = "ServerMessage"
    /\ reply.res.err.protocol.val = TEXT_BUFFER_SIZE + 1

(***************************************************************************)
(* C4: starting from the empty cache, when N + 1 successive writes of one  *)
(* content type (N its number of slots) each find every earlier written    *)
(* slot still active, the last of them overwrites a slot whose updated_at  *)
(* is the smallest of the array, stores the new message there, and leaves  *)
(* the other N - 1 slots as they were.                                     *)
(***************************************************************************)
C4_Eviction ==
    \A kind \in {"Text", "Image"} :
        (lastWrite.kind = kind /\ fill[kind].n = Len(SlotsOf(kind)) + 1 /\ fill[kind].kept) =>
            /\ \A j \in DOMAIN lastWrite.pre :
                  lastWrite.pre[lastWrite.idx].meta.updated_at <= lastWrite.pre[j].meta.updated_at
            /\ \A j \in DOMAIN lastWrite.pre :
                  j # lastWrite.idx =>
                      /\ SlotsOf(kind)[j] = lastWrite.pre[j]
                      /\ SlotsOf(kind)[j].data.msg \notin {NoMsg, Partial, lastWrite.id}
            /\ SlotsOf(kind)[lastWrite.idx].data.msg = lastWrite.id

\* The image array was filled at distinct instants and one more image arrived.
C4_Witness ==
    /\ lastWrite.kind = "Image"
    /\ fill["Image"].n = IMAGE_MESSAGE_NUM + 1
    /\ fill["Image"].kept
    /\ \A i, j \in DOMAIN lastWrite.pre :
          i < j => lastWrite.pre[i].meta.updated_at < lastWrite.pre[j].meta.updated_at

C6_OncePerRotation ==
    LET A == ActiveRefs(texts, images, now)
        K == Cardinality(A)
    IN /\ \A i, j \in 1..Len(rotation) : (i < j /\ j <= K) => rotation[i] # rotation[j]
       /\ Len(rotation) >= K => {rotation[i] : i \in 1..K} = A

(***************************************************************************)
(* C7: a slot with updated_at + lifetime <= now, the boundary and the      *)
(* slots of a fresh cache included, is not returned by next-to-display for *)
(* any last_shown, and no slot returned in the current chain of calls is   *)
(* such a slot.                                                            *)
(***************************************************************************)
C7_Expiry ==
    /\ \A last \in Instant_MIN..MaxTime :
          LET r == next_display_message_generic(texts, images, now, last) IN
          r.tag = "Some" =>
              now < MetaOf(texts, images, r.ref).updated_at + MetaOf(texts, images, r.ref).lifetime
    /\ \A i \in 1..Len(rotation) :
          now < MetaOf(texts, images, rotation[i]).updated_at
                    + MetaOf(texts, images, rotation[i]).lifetime

\* A slot written with a positive lifetime is exactly at its expiry, another
\* slot was never written, and the display call returned a third one.
C7_Witness ==
    /\ \E i \in DOMAIN texts :
          /\ texts[i].meta.lifetime > 0
          /\ texts[i].meta.updated_at + texts[i].meta.lifetime = now
    /\ \E i \in DOMAIN images : images[i].meta = MessageMeta_new
    /\ Len(rotation) > 0
    /\ shown.tag = "Some"


C9_NoRenderUnderMutex ==
    ~(owner = "display" /\ dpc = "render")

(***************************************************************************)
(* C9 amended: the display task holds the MESSAGES mutex from the          *)
(* next-to-display lookup to the end of the render of its result, and has  *)
(* released it when it waits for its display interval.                     *)
(***************************************************************************)
C9_MutexOnlyLookupAndRender ==
    owner = "display" <=> dpc = "render"

\* The display task rendered a message of the cache under the guard, waits
\* for its interval, and the mutex is free.
C9_Witness ==
    /\ dpc = "wait"
    /\ rendered # NoValue
    /\ shown.tag = "Some"
    /\ owner = "none"

(***************************************************************************)
(* C10: when a priority notification was published while the display task  *)
(* waited for its display interval, the display task's next render is the  *)
(* priority content and not the result of the rotation.                    *)
(***************************************************************************)
C10_Preemption ==
    (rendered # NoValue /\ rendered.afterPrio) => rendered.src = "priority"

(***************************************************************************)
(* C11: the priority mailbox holds one notification and a publication      *)
(* replaces the one before it; when two or more notifications were         *)
(* published while the display task waited, the render that follows shows  *)
(* what the mailbox holds, the notification published last, and none of    *)
(* the replaced ones.                                                      *)
(***************************************************************************)
C11_LatestWins ==
    (rendered # NoValue /\ rendered.pubs >= 2) => rendered.src = "priority"

(***************************************************************************)
(* SpecSession: the fetch task alone, polling a server that may answer     *)
(* with an update of any id up to MaxId, with a text of one byte or of the *)
(* full text buffer or with an image, while fewer than MaxWrites updates   *)
(* were handled; at any time with no update, with a text too long, or with *)
(* nothing.                                                                *)
(***************************************************************************)
MaxId == 1

SessionReplies ==
    LET updates(ids, kinds) ==
          {[tag |-> "Update", update |-> [lifetime_sec |-> MaxTime, id |-> i, kind |-> k]] :
              i \in ids, k \in kinds}
    IN {[tag |-> "NoUpdate"]}
         \cup updates({0}, {[tag |-> "Text", len |-> TEXT_BUFFER_SIZE + 1]})
         \cup (IF nwrites < MaxWrites
               THEN updates(0..MaxId, {[tag |-> "Text", len |-> 1],
                                       [tag |-> "Text", len |-> TEXT_BUFFER_SIZE],
                                       [tag |-> "Image"]})
               ELSE {})

SessionFrames == {to_bytes(order, "result", r) : r \in SessionReplies} \cup {<<>>}

\* Socket::request_update: the reply was received and validated.
SessionRequestRecv ==
    /\ fpc = "request_recv"
    /\ \E s \in SessionFrames : FetchDispatch(request_update(order, s))
    /\ UNCHANGED <<dpc, owner, slot, rendered, last_seen_id>>
    /\ UNCHANGED <<cacheVars, codecVars, backVars>>

SessionNext ==
    \/ FetchConnect \/ FetchRetry \/ FetchRequestSend \/ SessionRequestRecv
    \/ FetchLock \/ FetchPayload \/ FetchWake

SpecSession == Init /\ [][SessionNext]_vars

CheckUpdateReads ==
    {[tag |-> "ReadError"], [tag |-> "Oversize"], [tag |-> "Undecodable"],
     [tag |-> "None"], [tag |-> "NoUpdate"]}
      \cup (IF nwrites < MaxUpdates
            THEN {[tag |-> "Update", update |-> [lifetime_sec |-> lt, id |-> nwrites, kind |-> k]] :
                    lt \in {1, MaxTime},
                    k \in {[tag |-> "Text", len |-> TEXT_BUFFER_SIZE], [tag |-> "Image"]}}
            ELSE {})

\* fetch_data_task: Protocol::new, the connect succeeded or failed.
ProtocolNew ==
    /\ fpc = "connect"
    /\ \/ /\ fpc' = "check_send"
          /\ conn' = [NoConn EXCEPT !.open = TRUE]
       \/ /\ fpc' = "error_wait"
          /\ UNCHANGED conn
    /\ UNCHANGED <<dpc, owner, reply, handling, slot, rendered, last_seen_id, sent>>
    /\ NoPublish
    /\ UNCHANGED <<cacheVars, codecVars, backVars>>

\* Protocol::check_update: socket.write(..).await.unwrap()
check_update_write ==
    /\ fpc = "check_send"
    /\ \/ /\ fpc' = "check_recv"
          /\ conn' = [conn EXCEPT !.polls = @ + 1]
          /\ UNCHANGED reply
       \/ /\ reply' = [got |-> NoValue, res |-> Err([tag |-> "Socket"])]
          /\ fpc' = "panicked"
          /\ UNCHANGED conn
    /\ UNCHANGED <<dpc, owner, handling, slot, rendered, last_seen_id, sent>>
    /\ NoPublish
    /\ UNCHANGED <<cacheVars, codecVars, backVars>>

\* Protocol::check_update: the two socket.read(..).await.unwrap(), the slice
\* of the reply buffer and postcard::from_bytes(..).unwrap(); then the match
\* of fetch_data_task on the value.
check_update_read ==
    /\ fpc = "check_recv"
    /\ \E r \in CheckUpdateReads :
        IF r.tag \in {"ReadError", "Oversize", "Undecodable"}
        THEN /\ reply' = [got |-> NoValue,
                          res |-> Err([tag |-> IF r.tag = "ReadError" THEN "Socket" ELSE "Postcard"])]
             /\ fpc' = "panicked"
             /\ UNCHANGED <<handling, conn>>
        ELSE IF r.tag \in {"None", "NoUpdate"}
        THEN /\ reply' = [got |-> NoValue, res |-> Ok(r)]
             /\ fpc' = "sleep"
             /\ conn' = Closed(IF r.tag = "None" THEN "failure" ELSE "NoUpdate")
             /\ UNCHANGED handling
        ELSE /\ reply' = [got |-> NoValue, res |-> Ok(r)]
             /\ fpc' = "lock"
             /\ handling' = r.update
             /\ UNCHANGED conn
    /\ UNCHANGED <<dpc, owner, slot, rendered, last_seen_id, sent>>
    /\ NoPublish
    /\ UNCHANGED <<cacheVars, codecVars, backVars>>

\* fetch_data_task: MESSAGES.lock() returned the guard; the slot is taken
\* and its meta set.
ProtocolLock ==
    /\ fpc = "lock"
    /\ owner = "none"
    /\ owner' = "fetch"
    /\ IF handling.kind.tag = "Text"
       THEN LET sel == next_available_text(texts, now) IN
            /\ texts' = [sel.arr EXCEPT ![sel.idx] = set_meta(sel.arr[sel.idx], handling, now)]
            /\ slot' = [arr |-> "text", idx |-> sel.idx, buf |-> sel.arr[sel.idx].data.len]
            /\ UNCHANGED images
       ELSE LET sel == next_available_image(images, now) IN
            /\ images' = [sel.arr EXCEPT ![sel.idx] = set_meta(sel.arr[sel.idx], handling, now)]
            /\ slot' = [arr |-> "image", idx |-> sel.idx, buf |-> IMAGE_BUFFER_SIZE]
            /\ UNCHANGED texts
    /\ nwrites' = nwrites + 1
    /\ fpc' = "update_send"
    /\ UNCHANGED <<dpc, reply, handling, rendered, sessVars>>
    /\ NoPublish
    /\ UNCHANGED <<now, lastWrite, fill, displayVars, codecVars, backVars>>

\* Protocol::request_update: the debug assertion on the buffer's length and
\* socket.write(..).await.unwrap()
request_update_write ==
    /\ fpc = "update_send"
    /\ \/ /\ slot.buf >= size(handling.kind)
          /\ fpc' = "update_recv"
          /\ UNCHANGED reply
       \/ /\ reply' = [got |-> NoValue, res |-> Err([tag |-> "Socket"])]
          /\ fpc' = "panicked"
    /\ UNCHANGED <<dpc, owner, handling, slot, rendered, sessVars>>
    /\ NoPublish
    /\ UNCHANGED <<cacheVars, codecVars, backVars>>

\* Protocol::request_update: socket.read(message_buf).await.unwrap(); the
\* payload is in the slot (an image), the guard is dropped and the task
\* checks for the next update.
request_update_read ==
    /\ fpc = "update_recv"
    /\ \/ /\ images' = handle_update_image_store(images, slot.idx, handling, "ok")
          /\ fpc' = "check_send"
          /\ conn' = [conn EXCEPT !.stored = @ + 1]
          /\ handle_update_return
          /\ UNCHANGED reply
       \/ /\ reply' = [got |-> NoValue, res |-> Err([tag |-> "Socket"])]
          /\ fpc' = "panicked"
          /\ UNCHANGED <<images, conn, owner, handling, slot>>
    /\ UNCHANGED <<dpc, rendered, last_seen_id, sent, texts>>
    /\ NoPublish
    /\ UNCHANGED <<now, writeVars, displayVars, codecVars, backVars>>

ProtocolNext ==
    \/ ProtocolNew \/ FetchRetry \/ check_update_write \/ check_update_read
    \/ ProtocolLock \/ request_update_write \/ request_update_read \/ FetchWake
    \/ Tick

SpecProtocol == Init /\ [][ProtocolNext]_vars

(***************************************************************************)
(* C14: a failure of the fetch session never panics, and once a request    *)
(* has failed (a transport error, a decode failure, a validation failure)  *)
(* the connection is gone and the fetch task waits for its next attempt.   *)
(***************************************************************************)
C14_FailuresUnwind ==
    /\ fpc # "panicked"
    /\ (reply # NoValue /\ reply.res.tag = "Err") =>
          /\ fpc \in {"sleep", "error_wait"}
          /\ ~conn.open

(***************************************************************************)
(* SpecBackend: the message repository (server/src/db/memory_db.rs), the   *)
(* web handler that inserts text messages (handlers/web/mod.rs) and the    *)
(* handler of the device's connection (handlers/device.rs), with one       *)
(* device that polls with its cursor.  Requests of the web handler run     *)
(* concurrently; the repository is behind one mutex, so each of its        *)
(* operations is one step.                                                 *)
(***************************************************************************)
\* A device id other than DEVICE_ID.
OTHER_DEVICE == <<0, 0, 0, 1>>
Receivers == {DEVICE_ID, OTHER_DEVICE}

\* InnerMemoryDb::dummy: three messages for DEVICE_ID, each created_at a
\* Utc::now() of its own.
dummy(t0, t1, t2) ==
    <<[id |-> 0, receiver_id |-> DEVICE_ID, created_at |-> t0, content |-> "Text"],
      [id |-> 1, receiver_id |-> DEVICE_ID, created_at |-> t1, content |-> "Image"],
      [id |-> 2, receiver_id |-> DEVICE_ID, created_at |-> t2, content |-> "Text"]>>

\* InnerMemoryDb::next_id, one too high
next_id_one_based(M) == Len(M) + 1

\* InnerMemoryDb::next_id
next_id(M) == Len(M)

\* Message::from_insert: the InsertMessage with the id given to it
from_insert(id, insert) ==
    [id |-> id, receiver_id |-> insert.receiver_id, created_at |-> insert.created_at,
     content |-> insert.content]

\* MemoryDb::add_message, under the lock: the repository after it
add_message(M, insert) == Append(M, from_insert(next_id(M), insert))

\* InnerMemoryDb::get_message: the first message with the id
get_message(M, id) ==
    LET found == {k \in DOMAIN M : M[k].id = id} IN
    IF found = {} THEN None
    ELSE [tag |-> "Some", val |-> M[CHOOSE k \in found : \A j \in found : k <= j]]

\* InnerMemoryDb::get_next_message, but a message created at the instant of
\* the cursor's message passes the filter
get_next_message_inclusive(M, receiver_id, after_id) ==
    LET after == IF after_id.tag = "Some" THEN get_message(M, after_id.id) ELSE None
        passes == {k \in DOMAIN M :
                     /\ M[k].receiver_id = receiver_id
                     /\ after.tag = "Some" => M[k].created_at >= after.val.created_at}
    IN IF passes = {} THEN None
       ELSE [tag |-> "Some",
             val |-> M[CHOOSE k \in passes : \A j \in passes :
                          \/ M[k].created_at < M[j].created_at
                          \/ M[k].created_at = M[j].created_at /\ k <= j]]

\* InnerMemoryDb::get_next_message, but an after_id that names no message
\* yields no message
get_next_message_unknown_none(M, receiver_id, after_id) ==
    LET after == IF after_id.tag = "Some" THEN get_message(M, after_id.id) ELSE None
        passes == {k \in DOMAIN M :
                     /\ M[k].receiver_id = receiver_id
                     /\ after_id.tag = "Some" => after.tag = "Some"
                     /\ after.tag = "Some" => M[k].created_at > after.val.created_at}
    IN IF passes = {} THEN None
       ELSE [tag |-> "Some",
             val |-> M[CHOOSE k \in passes : \A j \in passes :
                          \/ M[k].created_at < M[j].created_at
                          \/ M[k].created_at = M[j].created_at /\ k <= j]]

\* InnerMemoryDb::get_next_message: after_time is the created_at of the
\* message `after_id` names (None when it is absent or names no message);
\* the filter keeps the receiver's messages with Some(created_at) >
\* after_time; min_by_key returns the first of those with the least
\* created_at.
get_next_message(M, receiver_id, after_id) ==
    LET after == IF after_id.tag = "Some" THEN get_message(M, after_id.id) ELSE None
        passes == {k \in DOMAIN M :
                     /\ M[k].receiver_id = receiver_id
                     /\ after.tag = "Some" => M[k].created_at > after.val.created_at}
    IN IF passes = {} THEN None
       ELSE [tag |-> "Some",
             val |-> M[CHOOSE k \in passes : \A j \in passes :
                          \/ M[k].created_at < M[j].created_at
                          \/ M[k].created_at = M[j].created_at /\ k <= j]]

\* The Update header handle_client builds for a message.
header(message) ==
    [tag |-> "Update", id |-> message.id, kind |-> message.content]

\* new_text_message: the InsertMessage is built with Utc::now(), which does
\* not go back and may return the same instant twice; the handler then
\* awaits the repository's lock.
new_text_message_build ==
    /\ \E r \in 1..MaxInserts, receiver \in Receivers, t \in utc..MaxUtc :
        /\ inserts[r].pc = "idle"
        /\ \A q \in 1..(r - 1) : inserts[q].pc # "idle"
        /\ utc' = t
        /\ inserts' = [inserts EXCEPT ![r] =
              [pc |-> "built",
               msg |-> [receiver_id |-> receiver, created_at |-> t, content |-> "Text"]]]
    /\ UNCHANGED <<db, hpc, inbox, served, client>>
    /\ UNCHANGED <<codecVars, cacheVars, devVars, lisVars, tgVars>>

\* new_text_message: MemoryDb::add_message got the lock.
new_text_message_add ==
    /\ \E r \in 1..MaxInserts :
        /\ inserts[r].pc = "built"
        /\ db' = add_message(db, inserts[r].msg)
        /\ inserts' = [inserts EXCEPT ![r] = [pc |-> "done"]]
    /\ UNCHANGED <<utc, hpc, inbox, served, client>>
    /\ UNCHANGED <<codecVars, cacheVars, devVars, lisVars, tgVars>>

\* The device connects and run() accepts the connection.
ClientConnect ==
    /\ client.pc = "idle"
    /\ hpc = "listen"
    /\ client.polls < MaxPolls
    /\ client' = [client EXCEPT !.pc = "poll", !.read = Len(served)]
    /\ hpc' = "command"
    /\ UNCHANGED <<db, utc, inserts, inbox, served>>
    /\ UNCHANGED <<codecVars, cacheVars, devVars, lisVars, tgVars>>

\* The device polls with its cursor.
ClientPoll ==
    /\ client.pc = "poll"
    /\ client.polls < MaxPolls
    /\ inbox' = [tag |-> "CheckUpdate", device |-> DEVICE_ID, after |-> client.after]
    /\ client' = [client EXCEPT !.pc = "await_header", !.polls = @ + 1]
    /\ UNCHANGED <<db, utc, inserts, hpc, served>>
    /\ UNCHANGED <<codecVars, cacheVars, devVars, lisVars, tgVars>>

\* handle_client, ClientCommand::CheckUpdate, but the content of the message
\* is written right after its header
handle_client_CheckUpdate_streams ==
    /\ hpc = "command"
    /\ inbox.tag = "CheckUpdate"
    /\ LET result == get_next_message(db, inbox.device, inbox.after) IN
        /\ served' = IF result.tag = "Some"
                      THEN served \o <<header(result.val), [tag |-> "Payload", id |-> result.val.id]>>
                      ELSE Append(served, [tag |-> "NoUpdate"])
        /\ hpc' = IF result.tag = "Some" THEN "command" ELSE "listen"
    /\ inbox' = NoValue
    /\ UNCHANGED <<db, utc, inserts, client>>
    /\ UNCHANGED <<codecVars, cacheVars, devVars, lisVars, tgVars>>

\* handle_client, ClientCommand::CheckUpdate: the header is written; after
\* NoUpdate the handler leaves its loop, otherwise it reads the next command.
handle_client_CheckUpdate ==
    /\ hpc = "command"
    /\ inbox.tag = "CheckUpdate"
    /\ LET result == get_next_message(db, inbox.device, inbox.after) IN
        /\ served' = Append(served, IF result.tag = "Some" THEN header(result.val)
                                    ELSE [tag |-> "NoUpdate"])
        /\ hpc' = IF result.tag = "Some" THEN "command" ELSE "listen"
    /\ inbox' = NoValue
    /\ UNCHANGED <<db, utc, inserts, client>>
    /\ UNCHANGED <<codecVars, cacheVars, devVars, lisVars, tgVars>>

\* handle_client, ClientCommand::RequestUpdate: the content of the message
\* is written; a message that is not found panics (expect).
handle_client_RequestUpdate ==
    /\ hpc = "command"
    /\ inbox.tag = "RequestUpdate"
    /\ LET message == get_message(db, inbox.id) IN
        IF message.tag = "Some"
        THEN /\ served' = Append(served, [tag |-> "Payload", id |-> message.val.id])
             /\ UNCHANGED hpc
        ELSE /\ hpc' = "panicked"
             /\ UNCHANGED served
    /\ inbox' = NoValue
    /\ UNCHANGED <<db, utc, inserts, client>>
    /\ UNCHANGED <<codecVars, cacheVars, devVars, lisVars, tgVars>>

\* handle_client: parse_client_command failed, the device closed the
\* connection.
handle_client_Err ==
    /\ hpc = "command"
    /\ inbox.tag = "Closed"
    /\ hpc' = "listen"
    /\ inbox' = NoValue
    /\ UNCHANGED <<db, utc, inserts, served, client>>
    /\ UNCHANGED <<codecVars, cacheVars, devVars, lisVars, tgVars>>

\* The device reads the header: on NoUpdate its cycle ends; on an Update it
\* goes on to read the payload, as Socket::handle_update does without
\* another command, or as Protocol::request_update does after sending
\* RequestUpdate(id).
ClientHeader ==
    /\ client.pc = "await_header"
    /\ client.read < Len(served)
    /\ LET h == served[client.read + 1] IN
        IF h.tag = "NoUpdate"
        THEN /\ client' = [client EXCEPT !.pc = "done", !.read = @ + 1]
             /\ UNCHANGED inbox
        ELSE \E ask \in BOOLEAN :
             /\ client' = [client EXCEPT !.pc = "await_payload", !.read = @ + 1,
                                         !.cur = h.id, !.asked = ask]
             /\ inbox' = IF ask THEN [tag |-> "RequestUpdate", id |-> h.id] ELSE inbox
    /\ UNCHANGED <<db, utc, inserts, hpc, served>>
    /\ UNCHANGED <<codecVars, cacheVars, devVars, lisVars, tgVars>>

\* The device reads the payload; its cursor becomes max(last_seen_id, id)
\* for the id of this update.
ClientPayload ==
    /\ client.pc = "await_payload"
    /\ client.read < Len(served)
    /\ client' = [client EXCEPT !.pc = "poll", !.read = @ + 1,
                                !.after = last_seen_id_max(client.after, client.cur)]
    /\ UNCHANGED <<db, utc, inserts, hpc, inbox, served>>
    /\ UNCHANGED <<codecVars, cacheVars, devVars, lisVars, tgVars>>

\* The device's read of the payload times out (SOCKET_TIMEOUT): nothing is
\* on the socket and the handler waits for a command.  The device drops the
\* connection.
ClientTimeout ==
    /\ client.pc = "await_payload"
    /\ client.read = Len(served)
    /\ inbox = NoValue
    /\ hpc = "command"
    /\ client' = [client EXCEPT !.pc = "idle"]
    /\ inbox' = [tag |-> "Closed"]
    /\ UNCHANGED <<db, utc, inserts, hpc, served>>
    /\ UNCHANGED <<codecVars, cacheVars, devVars, lisVars, tgVars>>

\* The device slept its fetch interval after NoUpdate.
ClientWake ==
    /\ client.pc = "done"
    /\ client' = [client EXCEPT !.pc = "idle"]
    /\ UNCHANGED <<db, utc, inserts, hpc, inbox, served>>
    /\ UNCHANGED <<codecVars, cacheVars, devVars, lisVars, tgVars>>

\* The repository is the dummy one; its three instants are in order, the
\* same or one later.
BackendInit ==
    /\ CacheIdle /\ CodecIdle /\ ListenerIdle /\ TelegramIdle
    /\ \E t1 \in {0, 1}, t2 \in {0, 1} :
        /\ t1 <= t2
        /\ db = dummy(0, t1, t2)
        /\ utc = t2
    /\ inserts = [r \in 1..MaxInserts |-> [pc |-> "idle"]]
    /\ hpc = "listen"
    /\ inbox = NoValue
    /\ served = <<>>
    /\ client = ClientIdle

BackendNext ==
    \/ new_text_message_build \/ new_text_message_add
    \/ ClientConnect \/ ClientPoll \/ ClientHeader \/ ClientPayload
    \/ ClientTimeout \/ ClientWake
    \/ handle_client_CheckUpdate \/ handle_client_RequestUpdate \/ handle_client_Err

SpecBackend == BackendInit /\ [][BackendNext]_vars

(***************************************************************************)
(* C16: for every device and every cursor (absent, or the id of a stored   *)
(* message), get_next_message returns a message of that device created     *)
(* strictly after the cursor's message (any message of the device when the *)
(* cursor is absent) and no such message of the device is older than it;   *)
(* it returns nothing exactly when the device has no such message.         *)
(***************************************************************************)
C16_NextMessage ==
    \A device \in Receivers :
    \A after \in {[tag |-> "None"]} \cup {[tag |-> "Some", id |-> db[k].id] : k \in DOMAIN db} :
        LET result == get_next_message(db, device, after)
            later == {k \in DOMAIN db :
                        /\ db[k].receiver_id = device
                        /\ after.tag = "Some" =>
                              \E c \in DOMAIN db : /\ db[c].id = after.id
                                                   /\ db[k].created_at > db[c].created_at}
        IN IF later = {}
           THEN result = None
           ELSE /\ result.tag = "Some"
                /\ result.val \in {db[k] : k \in later}
                /\ result.val.receiver_id = device
                /\ \A k \in later : result.val.created_at <= db[k].created_at

\* The handler served the device the message inserted last, although the
\* repository holds an older message of the other device and an earlier
\* message of the device with the same created_at as the cursor's.
C16_Witness ==
    /\ Len(db) = 5
    /\ db[4].receiver_id = OTHER_DEVICE
    /\ db[5].receiver_id = DEVICE_ID
    /\ db[4].created_at < db[5].created_at
    /\ db[1].created_at = db[2].created_at
    /\ \E i \in DOMAIN served : served[i] = header(db[5])

(***************************************************************************)
(* C17: with the repository unchanged since the start, when the device     *)
(* that began with `after` absent and passes the id of the update it       *)
(* received last is answered NoUpdate, the handler has written to it, for  *)
(* each message addressed to the device in turn, the header and then the   *)
(* payload of that message, each once, and then NoUpdate.                  *)
(***************************************************************************)
C17_ChainServesAll ==
    (/\ client.pc = "done"
     /\ \A r \in DOMAIN inserts : inserts[r].pc = "idle") =>
        LET mine == SelectSeq(db, LAMBDA message : message.receiver_id = DEVICE_ID) IN
        /\ Len(served) = 2 * Len(mine) + 1
        /\ \A j \in 1..Len(mine) :
              /\ served[2 * j - 1] = header(mine[j])
              /\ served[2 * j] = [tag |-> "Payload", id |-> mine[j].id]
        /\ served[Len(served)] = [tag |-> "NoUpdate"]

(***************************************************************************)
(* C18: the ids of the updates the handler serves to the device, which     *)
(* chains its cursor, never decrease: no update is served after an update  *)
(* with a larger id.                                                       *)
(***************************************************************************)
C18_IdOrder ==
    \A i, j \in DOMAIN served :
        (i < j /\ served[i].tag = "Update" /\ served[j].tag = "Update") =>
            served[i].id <= served[j].id

(***************************************************************************)
(* C19: the k-th message of the repository has the id k-1 (so no two have  *)
(* the same id), and a step of the backend only appends to the repository. *)
(***************************************************************************)
C19_AppendOnly ==
    /\ [](\A k \in DOMAIN db : db[k].id = k - 1)
    /\ [][/\ Len(db') >= Len(db)
          /\ SubSeq(db', 1, Len(db)) = db]_vars

\* Two concurrent requests were added in the reverse order of their
\* Utc::now().
C19_Witness ==
    /\ Len(db) = 5
    /\ \A r \in DOMAIN inserts : inserts[r].pc = "done"
    /\ db[4].created_at > db[5].created_at

(***************************************************************************)
(* C20: a device that read an Update header and reads the payload without  *)
(* sending a command finds the payload on the connection: the handler      *)
(* wrote it after the header without waiting for a command.                *)
(***************************************************************************)
C20_PayloadFollowsHeader ==
    (client.pc = "await_payload" /\ ~client.asked) => client.read < Len(served)

(***************************************************************************)
(* SpecListener: run of handlers/device.rs accepting the connections of    *)
(* two devices and serving them with handle_client; the devices send any   *)
(* command, also bytes that do not decode and requests for messages that   *)
(* do not exist, and may drop their connection.                            *)
(***************************************************************************)

\* What a device may write: the two commands, well-formed or naming a
\* message the repository does not hold, or bytes that are no command.
PeerCommands ==
    {[tag |-> "CheckUpdate", device |-> device, after |-> None] : device \in Receivers}
      \cup {[tag |-> "RequestUpdate", id |-> id] : id \in {0, Len(db)}}
      \cup {[tag |-> "Undecodable"]}

\* The connection handle_client serves.
Serving(p) == [tag |-> "serving", peer |-> p]

\* handle_client is in parse_client_command, reading from a connection on
\* which nothing was sent and which its device keeps open.
ReadsIdle(q) ==
    /\ lpc = Serving(q)
    /\ peers[q].out = NoValue
    /\ ~peers[q].gone

\* A device connects: the connection waits in the listener's queue.
PeerConnect(p) ==
    /\ peers[p].pc = "idle"
    /\ ~peers[p].gone
    /\ peers[p].out = NoValue
    /\ peers[p].sends < MaxSends
    /\ lpc.tag # "panicked"
    /\ peers' = [peers EXCEPT ![p].pc = "open"]
    /\ backlog' = Append(backlog, p)
    /\ UNCHANGED <<lpc, db, utc, inserts, hpc, inbox, served, client>>
    /\ UNCHANGED <<codecVars, cacheVars, devVars, tgVars>>

\* A device writes a command and waits for the answer.
PeerSend(p) ==
    /\ peers[p].pc = "open"
    /\ peers[p].sends < MaxSends
    /\ \E command \in PeerCommands :
        peers' = [peers EXCEPT ![p].pc = "waiting", ![p].out = command, ![p].sends = @ + 1]
    /\ UNCHANGED <<lpc, backlog, db, utc, inserts, hpc, inbox, served, client>>
    /\ UNCHANGED <<codecVars, cacheVars, devVars, tgVars>>

\* A device that is not waiting for an answer closes its connection.
PeerClose(p) ==
    /\ peers[p].pc = "open"
    /\ peers' = [peers EXCEPT ![p].pc = "idle", ![p].gone = TRUE]
    /\ UNCHANGED <<lpc, backlog, db, utc, inserts, hpc, inbox, served, client>>
    /\ UNCHANGED <<codecVars, cacheVars, devVars, tgVars>>

\* SOCKET_TIMEOUT of a waiting device: no answer came, because run is inside
\* handle_client reading from the other device's idle connection, or
\* because run has panicked.  The device drops its connection.
PeerTimeout(p) ==
    /\ peers[p].pc = "waiting"
    /\ \/ /\ \E q \in Peers \ {p} : ReadsIdle(q)
          /\ peers' = [peers EXCEPT ![p].pc = "idle", ![p].gone = TRUE, ![p].starved = "behind"]
       \/ /\ lpc.tag = "panicked"
          /\ peers' = [peers EXCEPT ![p].pc = "idle", ![p].gone = TRUE, ![p].starved = "dead"]
    /\ UNCHANGED <<lpc, backlog, db, utc, inserts, hpc, inbox, served, client>>
    /\ UNCHANGED <<codecVars, cacheVars, devVars, tgVars>>

\* run: listener.accept() returned the oldest waiting connection and
\* handle_client is awaited in place.
accept ==
    /\ lpc.tag = "accept"
    /\ backlog # <<>>
    /\ lpc' = Serving(Head(backlog))
    /\ backlog' = Tail(backlog)
    /\ UNCHANGED <<peers, db, utc, inserts, hpc, inbox, served, client>>
    /\ UNCHANGED <<codecVars, cacheVars, devVars, tgVars>>

\* handle_client returned: its socket is dropped, the connection is over
\* on both sides.
Dropped(p) == [peers EXCEPT ![p].pc = "idle", ![p].out = NoValue, ![p].gone = FALSE]

\* socket.write_all(..) succeeded: the device, unless it has left, has its
\* answer.
Answered(p) ==
    [peers EXCEPT ![p].pc = IF peers[p].gone THEN @ ELSE "open", ![p].out = NoValue]

\* handle_client: parse_client_command returned Err (the bytes are no
\* command, or the device closed the connection); break 'client.
peer_Err ==
    /\ \E p \in Peers :
        /\ lpc = Serving(p)
        /\ \/ peers[p].out.tag = "Undecodable"
           \/ peers[p].out = NoValue /\ peers[p].gone
        /\ peers' = Dropped(p)
    /\ lpc' = [tag |-> "accept"]
    /\ UNCHANGED <<backlog, db, utc, inserts, hpc, inbox, served, client>>
    /\ UNCHANGED <<codecVars, cacheVars, devVars, tgVars>>

\* handle_client, ClientCommand::CheckUpdate: socket.write_all(&buf).await
\* .unwrap(); a write to a connection its device has dropped succeeds or
\* fails, and a failure panics.  After NoUpdate, break 'client.
peer_CheckUpdate ==
    /\ \E p \in Peers :
        /\ lpc = Serving(p)
        /\ peers[p].out.tag = "CheckUpdate"
        /\ \/ IF get_next_message(db, peers[p].out.device, peers[p].out.after).tag = "Some"
              THEN /\ peers' = Answered(p)
                   /\ UNCHANGED lpc
              ELSE /\ peers' = Dropped(p)
                   /\ lpc' = [tag |-> "accept"]
           \/ /\ peers[p].gone
              /\ lpc' = [tag |-> "panicked"]
              /\ UNCHANGED peers
    /\ UNCHANGED <<backlog, db, utc, inserts, hpc, inbox, served, client>>
    /\ UNCHANGED <<codecVars, cacheVars, devVars, tgVars>>

\* handle_client, ClientCommand::RequestUpdate: get_message(id).expect(..)
\* panics when the message is not found, and so does a failed write.
peer_RequestUpdate ==
    /\ \E p \in Peers :
        /\ lpc = Serving(p)
        /\ peers[p].out.tag = "RequestUpdate"
        /\ \/ /\ get_message(db, peers[p].out.id).tag = "Some"
              /\ peers' = Answered(p)
              /\ UNCHANGED lpc
           \/ /\ get_message(db, peers[p].out.id).tag # "Some" \/ peers[p].gone
              /\ lpc' = [tag |-> "panicked"]
              /\ UNCHANGED peers
    /\ UNCHANGED <<backlog, db, utc, inserts, hpc, inbox, served, client>>
    /\ UNCHANGED <<codecVars, cacheVars, devVars, tgVars>>

\* The repository is the dummy one; no device has connected.
ListenerInit ==
    /\ CacheIdle /\ CodecIdle /\ ListenerIdle /\ TelegramIdle
    /\ db = dummy(0, 0, 1)
    /\ utc = 1
    /\ inserts = [r \in 1..MaxInserts |-> [pc |-> "idle"]]
    /\ hpc = "listen"
    /\ inbox = NoValue
    /\ served = <<>>
    /\ client = ClientIdle

ListenerNext ==
    \/ \E p \in Peers : PeerConnect(p) \/ PeerSend(p) \/ PeerClose(p) \/ PeerTimeout(p)
    \/ accept \/ peer_Err \/ peer_CheckUpdate \/ peer_RequestUpdate

SpecListener == ListenerInit /\ [][ListenerNext]_vars

(***************************************************************************)
(* C21: whatever a device sends and whenever it drops its connection, run  *)
(* goes on: it never panics, so it accepts and serves the connections      *)
(* that follow.                                                            *)
(***************************************************************************)
C21_ListenerSurvives == lpc.tag # "panicked"

(***************************************************************************)
(* C22: no device runs into its socket timeout waiting for an answer       *)
(* because the backend is occupied with the other device's connection,     *)
(* which is open and idle.                                                 *)
(***************************************************************************)
C22_OwnTask == \A p \in Peers : peers[p].starved # "behind"

(***************************************************************************)
(* C23: a connection is half-duplex.  The device writes a command only     *)
(* when no command of its own is unread and it has read everything the     *)
(* backend wrote; the backend writes only as the answer to a command it    *)
(* has just read.                                                          *)
(***************************************************************************)
C23_HalfDuplex ==
    [][/\ (inbox' # inbox /\ inbox'.tag \in {"CheckUpdate", "RequestUpdate"}) =>
              /\ inbox = NoValue
              /\ served' = served
              /\ client'.read = Len(served)
       /\ served' # served =>
              /\ inbox.tag \in {"CheckUpdate", "RequestUpdate"}
              /\ inbox' = NoValue
              /\ Len(served') > Len(served)
              /\ SubSeq(served', 1, Len(served)) = served]_vars

\* The device has read a header and its payload and polls again on the same
\* connection with the id as its cursor.
C23_Witness ==
    /\ client.pc = "await_header"
    /\ client.polls = 2
    /\ client.after.tag = "Some"
    /\ inbox.tag = "CheckUpdate"
    /\ Len(served) = 2
    /\ served[2].tag = "Payload"

(***************************************************************************)
(* C24: once an operation on the socket has failed, as it does when the    *)
(* socket timeout expires, the connection is torn down and the fetch task  *)
(* waits to start again from a new connection; it is not left with the     *)
(* socket still open.                                                      *)
(***************************************************************************)
C24_TimeoutRestarts ==
    (reply # NoValue /\ reply.res.tag = "Err" /\ reply.res.err.tag = "Socket") =>
        /\ ~conn.open
        /\ fpc \in {"sleep", "error_wait"}

(***************************************************************************)
(* C25: whenever the MESSAGES mutex is not held by the fetch task, so that *)
(* the display can read the cache, every active image slot holds the       *)
(* whole payload of one received image: none is active with the rest of a  *)
(* transfer that broke off, or with the zeroes of an image never written.  *)
(***************************************************************************)
C25_ImagesWhole ==
    owner # "fetch" =>
        \A i \in DOMAIN images :
            is_active(images[i].meta, now) => images[i].data.msg \notin {Partial, NoMsg}

(***************************************************************************)
(* C26: the length field is big-endian on both sides.  The first byte of   *)
(* an encoded frame is the high-order byte of the payload length and the   *)
(* second its low-order byte, and the length the decoder reports as        *)
(* exceeded is the one read with the first byte as the high-order byte.    *)
(***************************************************************************)
C26_BigEndian ==
    /\ (cpc \in {"sent", "received"} /\ txKind # "raw") =>
          /\ wire[1] = (Len(wire) - DATA_START) \div 256
          /\ wire[2] = (Len(wire) - DATA_START) % 256
    /\ (cpc = "received" /\ rx.res.tag = "Length") =>
          rx.res.val = 256 * wire[1] + wire[2]

(***************************************************************************)
(* C27: encoding into a buffer shorter than the type's maximum encoded     *)
(* size returns the encode-overflow error (postcard's SerializeBufferFull  *)
(* as Error::Postcard) to the caller, and no byte is written to the        *)
(* connection.                                                             *)
(***************************************************************************)
C27_EncodeOverflow ==
    cpc = "encoded" =>
        /\ txRes.buf < SERIALIZED_SIZE(txKind)
        /\ txRes.res.tag = "Postcard"
        /\ wire = <<>>

\* The instant of the last write: the updated_at it gave to its slot.
LastWriteAt == SlotsOf(lastWrite.kind)[lastWrite.idx].meta.updated_at

\* The slots that were inactive when the last write selected its slot.
LastWriteInactive ==
    {i \in DOMAIN lastWrite.pre : ~is_active(lastWrite.pre[i].meta, LastWriteAt)}

(***************************************************************************)
(* C28: when a slot of the content type is inactive, slot selection        *)
(* returns the inactive slot of that type with the lowest index, whatever  *)
(* the updated_at of the slots: for the arrays as they are now, and for    *)
(* the array the last write found.  A write changes no slot of the other   *)
(* content type and no other slot of its own.                              *)
(***************************************************************************)
C28_InactiveFirst ==
    /\ [](\A kind \in {"Text", "Image"} :
            LET inactive == {i \in DOMAIN SlotsOf(kind) : ~is_active(SlotsOf(kind)[i].meta, now)} IN
            inactive # {} =>
                /\ next_available_message(SlotsOf(kind), now) \in inactive
                /\ \A j \in inactive : next_available_message(SlotsOf(kind), now) <= j)
    /\ [](lastWrite.kind # "None" =>
            (LastWriteInactive # {} =>
                /\ lastWrite.idx \in LastWriteInactive
                /\ \A j \in LastWriteInactive : lastWrite.idx <= j))
    /\ [][lastWrite' # lastWrite =>
            /\ lastWrite'.kind = "Text" => images' = images
            /\ lastWrite'.kind = "Image" => texts' = texts
            /\ lastWrite'.pre = SlotsOf(lastWrite'.kind)
            /\ \A j \in DOMAIN lastWrite'.pre :
                  j # lastWrite'.idx =>
                      (IF lastWrite'.kind = "Text" THEN texts' ELSE images')[j] = lastWrite'.pre[j]]_vars

\* An image was written to slot 2, inactive and yet written later than
\* slot 1, which was active and older.
C28_Witness ==
    /\ lastWrite.kind = "Image"
    /\ lastWrite.idx = 2
    /\ LastWriteInactive = {2}
    /\ lastWrite.pre[2].meta.updated_at > lastWrite.pre[1].meta.updated_at
    /\ lastWrite.pre[1].meta.updated_at > Instant_MIN

(***************************************************************************)
(* C29: slot selection always returns a slot of the array; when every slot *)
(* of the content type is active it returns a slot with the smallest       *)
(* updated_at, and the one of lowest index among those with that           *)
(* updated_at: for the arrays as they are now, and for the array the last  *)
(* write found.                                                            *)
(***************************************************************************)
C29_OldestWhenFull ==
    /\ \A kind \in {"Text", "Image"} :
          LET arr == SlotsOf(kind) IN
          /\ next_available_message(arr, now) \in DOMAIN arr
          /\ (\A i \in DOMAIN arr : is_active(arr[i].meta, now)) =>
                \A j \in DOMAIN arr :
                    /\ arr[next_available_message(arr, now)].meta.updated_at <= arr[j].meta.updated_at
                    /\ j < next_available_message(arr, now) =>
                          arr[j].meta.updated_at > arr[next_available_message(arr, now)].meta.updated_at
    /\ lastWrite.kind # "None" =>
          /\ lastWrite.idx \in DOMAIN lastWrite.pre
          /\ LastWriteInactive = {} =>
                \A j \in DOMAIN lastWrite.pre :
                    /\ lastWrite.pre[lastWrite.idx].meta.updated_at <= lastWrite.pre[j].meta.updated_at
                    /\ j < lastWrite.idx =>
                          lastWrite.pre[j].meta.updated_at > lastWrite.pre[lastWrite.idx].meta.updated_at

\* An image was written to slot 1 when both image slots were active with
\* the same updated_at; now both are active and slot 2 is the older one.
C29_Witness ==
    /\ lastWrite.kind = "Image"
    /\ lastWrite.idx = 1
    /\ LastWriteInactive = {}
    /\ lastWrite.pre[1].meta.updated_at = lastWrite.pre[2].meta.updated_at
    /\ \A i \in DOMAIN images : is_active(images[i].meta, now)
    /\ images[2].meta.updated_at < images[1].meta.updated_at
    /\ next_available_message(images, now) = 2

(***************************************************************************)
(* C30: for every last_shown, when an active slot (text or image) has      *)
(* updated_at > last_shown, next-to-display returns an active slot with    *)
(* the smallest updated_at above last_shown; so did the last call of the   *)
(* display task.                                                           *)
(***************************************************************************)
C30_NextNewer ==
    /\ \A last \in Instant_MIN..MaxTime :
          LET newer == {a \in ActiveRefs(texts, images, now) :
                          MetaOf(texts, images, a).updated_at > last}
          IN newer # {} =>
                /\ next_display_message_generic(texts, images, now, last).tag = "Some"
                /\ next_display_message_generic(texts, images, now, last).ref \in newer
                /\ \A a \in newer :
                      MetaOf(texts, images, next_display_message_generic(texts, images, now, last).ref).updated_at
                          <= MetaOf(texts, images, a).updated_at
    /\ [][(shown' # shown \/ last_message_time' # last_message_time) =>
            LET newer == {a \in ActiveRefs(texts, images, now) :
                            MetaOf(texts, images, a).updated_at > last_message_time}
            IN newer # {} =>
                  /\ shown'.tag = "Some"
                  /\ shown'.ref \in newer
                  /\ \A a \in newer : shown'.meta.updated_at <= MetaOf(texts, images, a).updated_at
                  /\ last_message_time' = shown'.meta.updated_at]_vars

\* Three slots are active, written at two instants.  The first call of the
\* display task, which had shown nothing, returned one of the older two
\* although the newest was newer than last_shown too; its second call
\* returned the newest and passed over the other old one.
C30_Witness ==
    /\ rotFrom = Instant_MIN
    /\ Len(rotation) = 2
    /\ shown.tag = "Some"
    /\ shown.ref = rotation[2]
    /\ last_message_time = shown.meta.updated_at
    /\ Cardinality(ActiveRefs(texts, images, now)) = 3
    /\ MetaOf(texts, images, rotation[1]).updated_at < shown.meta.updated_at
    /\ \E a \in ActiveRefs(texts, images, now) :
          /\ a \notin {rotation[1], rotation[2]}
          /\ MetaOf(texts, images, a).updated_at = MetaOf(texts, images, rotation[1]).updated_at

(***************************************************************************)
(* C31: for every last_shown, when no active slot has updated_at >         *)
(* last_shown, next-to-display returns an active slot with the smallest    *)
(* updated_at of all active slots if there is one; it returns nothing      *)
(* exactly when no slot is active.  So did the last call of the display    *)
(* task.                                                                   *)
(***************************************************************************)
C31_WrapAround ==
    /\ \A last \in Instant_MIN..MaxTime :
          LET active == ActiveRefs(texts, images, now)
              newer == {a \in active : MetaOf(texts, images, a).updated_at > last}
          IN /\ next_display_message_generic(texts, images, now, last) = None <=> active = {}
             /\ (newer = {} /\ active # {}) =>
                  /\ next_display_message_generic(texts, images, now, last).ref \in active
                  /\ \A a \in active :
                        MetaOf(texts, images,
                               next_display_message_generic(texts, images, now, last).ref).updated_at
                            <= MetaOf(texts, images, a).updated_at
    /\ [][(shown' # shown \/ last_message_time' # last_message_time) =>
            LET active == ActiveRefs(texts, images, now)
                newer == {a \in active : MetaOf(texts, images, a).updated_at > last_message_time}
            IN /\ shown' = None <=> active = {}
               /\ (newer = {} /\ active # {}) =>
                    /\ shown'.ref \in active
                    /\ \A a \in active : shown'.meta.updated_at <= MetaOf(texts, images, a).updated_at]_vars

\* The two image slots are active, written at two instants; the display
\* task has shown the older, then the newer, and its third call found
\* nothing newer than that and returned the older one again.
C31_Witness ==
    /\ Len(rotation) = 3
    /\ rotation[1].arr = "image"
    /\ rotation[2].arr = "image"
    /\ rotation[3] = rotation[1]
    /\ shown.tag = "Some"
    /\ shown.ref = rotation[3]
    /\ MetaOf(texts, images, rotation[1]).updated_at < MetaOf(texts, images, rotation[2]).updated_at
    /\ last_message_time = MetaOf(texts, images, rotation[1]).updated_at

(***************************************************************************)
(* C32: a successful cache write changes one slot only, of the content     *)
(* type of the update: its content becomes the received payload, its       *)
(* updated_at the current time and its lifetime the lifetime of the        *)
(* update in seconds.  Every other slot of both arrays keeps its content   *)
(* and freshness, and the cache keeps its number of text and image slots.  *)
(***************************************************************************)
C32_WriteOneSlot ==
    /\ [](Len(texts) = TextSlots /\ Len(images) = IMAGE_MESSAGE_NUM)
    /\ [][(lastWrite' # lastWrite /\ lastWrite'.ok) =>
            /\ lastWrite'.idx \in DOMAIN SlotsOf(lastWrite'.kind)
            /\ lastWrite'.kind = "Text" =>
                  /\ images' = images
                  /\ DOMAIN texts' = DOMAIN texts
                  /\ \A j \in DOMAIN texts : j # lastWrite'.idx => texts'[j] = texts[j]
                  /\ texts'[lastWrite'.idx] =
                        [data |-> [len |-> TEXT_BUFFER_SIZE, msg |-> lastWrite'.id],
                         meta |-> [lifetime |-> from_secs(lastWrite'.lifetime_sec),
                                   updated_at |-> now]]
            /\ lastWrite'.kind = "Image" =>
                  /\ texts' = texts
                  /\ DOMAIN images' = DOMAIN images
                  /\ \A j \in DOMAIN images : j # lastWrite'.idx => images'[j] = images[j]
                  /\ images'[lastWrite'.idx] =
                        [data |-> [msg |-> lastWrite'.id],
                         meta |-> [lifetime |-> from_secs(lastWrite'.lifetime_sec),
                                   updated_at |-> now]]]_vars

\* The second image slot has just been written with a lifetime of one second
\* at the last instant, next to a first image slot and a text slot that
\* hold earlier payloads and stay as they were.
C32_Witness ==
    /\ lastWrite.kind = "Image"
    /\ lastWrite.ok
    /\ lastWrite.idx = 2
    /\ lastWrite.lifetime_sec = 1
    /\ now = MaxTime
    /\ images[2].data.msg = lastWrite.id
    /\ images[2].meta = [lifetime |-> from_secs(1), updated_at |-> now]
    /\ images[1] = lastWrite.pre[1]
    /\ images[1].data.msg \notin {NoMsg, Partial}
    /\ images[1].meta.updated_at < now
    /\ texts[1].data.msg \notin {NoMsg, Partial}

(***************************************************************************)
(* C33: only the write path of the fetch task changes the content or the   *)
(* freshness of a slot; the lookup and the rendering of the display task   *)
(* leave every slot as it is.  Without a write an inactive slot does not   *)
(* become active again, and an active slot becomes inactive only when time *)
(* passes or when it is overwritten.                                       *)
(***************************************************************************)
C33_OnlyFetchWrites ==
    [][/\ (texts' # texts \/ images' # images) =>
            /\ fpc \in {"lock", "payload"}
            /\ fpc' # fpc
            /\ owner' = "fetch" \/ owner = "fetch"
            /\ dpc' = dpc
       /\ (dpc' # dpc \/ shown' # shown \/ rendered' # rendered
                \/ last_message_time' # last_message_time) =>
            (texts' = texts /\ images' = images)
       /\ \A i \in DOMAIN texts :
            /\ (~is_active(texts[i].meta, now) /\ is_active(texts'[i].meta, now')) =>
                  (texts'[i].meta # texts[i].meta /\ fpc = "lock" /\ fpc' = "payload")
            /\ (is_active(texts[i].meta, now) /\ ~is_active(texts'[i].meta, now')) =>
                  (now' > now \/ (texts'[i].meta # texts[i].meta /\ fpc = "lock" /\ fpc' = "payload"))
       /\ \A i \in DOMAIN images :
            /\ (~is_active(images[i].meta, now) /\ is_active(images'[i].meta, now')) =>
                  (images'[i].meta # images[i].meta /\ fpc = "lock" /\ fpc' = "payload")
            /\ (is_active(images[i].meta, now) /\ ~is_active(images'[i].meta, now')) =>
                  (now' > now \/ (images'[i].meta # images[i].meta /\ fpc = "lock" /\ fpc' = "payload"))
      ]_vars

\* The text slot was stored with a lifetime of one second; the display task
\* looked it up and rendered it, and while the task waits the slot has
\* expired with its content and freshness as they were written.
C33_Witness ==
    /\ dpc = "wait"
    /\ rendered # NoValue
    /\ shown.tag = "Some"
    /\ shown.ref = [arr |-> "text", idx |-> 1]
    /\ texts[1].data.msg \notin {NoMsg, Partial}
    /\ texts[1].meta = shown.meta
    /\ texts[1].meta.lifetime = from_secs(1)
    /\ ~is_active(texts[1].meta, now)
    /\ fpc = "request_send"

(***************************************************************************)
(* C34: when handling an update fails (the payload read fails, or a text   *)
(* payload is not valid UTF-8), the freshness of every slot is what it was *)
(* before: the slot chosen for the write is not active with the lifetime   *)
(* of the failed update, and next-to-display does not return it.           *)
(***************************************************************************)
C34_FailureKeepsFreshness ==
    (lastWrite.kind # "None" /\ ~lastWrite.ok) =>
        /\ \A j \in DOMAIN lastWrite.pre :
              SlotsOf(lastWrite.kind)[j].meta = lastWrite.pre[j].meta
        /\ \A last \in Instant_MIN..MaxTime :
              LET next_message == next_display_message_generic(texts, images, now, last)
              IN next_message.tag = "Some" =>
                    next_message.ref # [arr |-> IF lastWrite.kind = "Text" THEN "text" ELSE "image",
                                        idx |-> lastWrite.idx]

(***************************************************************************)
(* C35: whenever the fetch task does not hold the cache mutex, every text  *)
(* slot holds valid UTF-8 of at most TEXT_BUFFER_SIZE bytes.  After a      *)
(* successful text update the slot holds the text_len bytes received,      *)
(* after a failed payload read or a payload that is not valid UTF-8 its    *)
(* text is empty, and the display task never has a text buffer that is     *)
(* being filled before it.                                                 *)
(***************************************************************************)
C35_TextWhole ==
    /\ [](owner # "fetch" =>
            \A i \in DOMAIN texts :
                /\ texts[i].data.msg # Partial
                /\ texts[i].data.len <= TEXT_BUFFER_SIZE
                /\ texts[i].data.msg = NoMsg <=> texts[i].data.len = 0)
    /\ []((dpc = "render" /\ shown.tag = "Some" /\ shown.ref.arr = "text") =>
            /\ owner = "display"
            /\ texts[shown.ref.idx].data.msg # Partial)
    /\ [][(fpc = "payload" /\ fpc' # fpc /\ slot.arr = "text") =>
            /\ owner' # "fetch"
            /\ texts'[slot.idx].data =
                  IF fpc' = "request_send"
                  THEN [len |-> handling.kind.len, msg |-> handling.id]
                  ELSE TextData_new]_vars

\* A text of one byte was stored and the guard dropped; the display task
\* has locked the cache and renders that text.
C35_Witness ==
    /\ owner = "display"
    /\ dpc = "render"
    /\ shown.tag = "Some"
    /\ shown.ref = [arr |-> "text", idx |-> 1]
    /\ texts[1].data.len = 1
    /\ texts[1].data.msg \notin {NoMsg, Partial}
    /\ conn.stored = 1

(***************************************************************************)
(* SpecPoll: the device polls a repository that no longer changes.  The    *)
(* repository is the dummy one after up to MaxInserts requests of the web  *)
(* handler, whose created_at need not follow the order of their ids; the   *)
(* device starts with any cursor: none, the id of a stored message, or an  *)
(* id the repository does not hold (the repository is in memory and starts *)
(* over as the dummy one, the device keeps its cursor).                    *)
(***************************************************************************)
\* The InsertMessages the web handler builds, each with a Utc::now() taken
\* after the dummy repository was made.
PollInserts ==
    {[receiver_id |-> r, created_at |-> t, content |-> "Text"] :
        r \in Receivers, t \in 1..MaxUtc}

RECURSIVE PollRepositories(_)
\* The repositories after at most n insertions into a dummy one.
PollRepositories(n) ==
    IF n = 0
    THEN {dummy(0, t[1], t[2]) : t \in {u \in {0, 1} \X {0, 1} : u[1] <= u[2]}}
    ELSE PollRepositories(n - 1)
            \cup {add_message(M, i) : M \in PollRepositories(n - 1), i \in PollInserts}

\* The cursors the device may hold: none, or any id up to one the largest
\* repository does not hold.
PollCursors ==
    {[tag |-> "None"]}
        \cup {[tag |-> "Some", id |-> i] : i \in 0..(Len(dummy(0, 0, 0)) + MaxInserts)}

PollInit ==
    /\ CacheIdle /\ CodecIdle /\ ListenerIdle /\ TelegramIdle
    /\ db \in PollRepositories(MaxInserts)
    /\ utc = MaxUtc
    /\ inserts = [r \in 1..MaxInserts |-> [pc |-> "done"]]
    /\ hpc = "listen"
    /\ inbox = NoValue
    /\ served = <<>>
    /\ \E c \in PollCursors : client = [ClientIdle EXCEPT !.after = c]

PollNext ==
    \/ ClientConnect \/ ClientPoll \/ ClientHeader \/ ClientPayload
    \/ ClientTimeout \/ ClientWake
    \/ handle_client_CheckUpdate \/ handle_client_RequestUpdate \/ handle_client_Err

SpecPoll == PollInit /\ [][PollNext]_vars

(***************************************************************************)
(* C36: with a repository that no longer changes, the device's polling     *)
(* ends: for every cursor the device may hold (an id the repository does   *)
(* not hold, or after ids were given out of the order of created_at), with *)
(* the cursor set to max(last_seen_id, id) after each update, no message   *)
(* whose payload the device received is served to it again, and it gets at *)
(* most one update for each of its messages before NoUpdate.               *)
(***************************************************************************)
C36_PollTerminates ==
    /\ \A k \in DOMAIN served : \A j \in DOMAIN served :
          (k < j /\ served[k].tag = "Payload" /\ served[j].tag = "Update") =>
              served[j].id # served[k].id
    /\ Cardinality({k \in DOMAIN served : served[k].tag = "Payload"})
          <= Cardinality({k \in DOMAIN db : db[k].receiver_id = DEVICE_ID})

(***************************************************************************)
(* C37: when `after` names an id that no stored message has,               *)
(* get_next_message does what it does without `after`: it returns the      *)
(* earliest message of the device, and nothing only when the device has no *)
(* message.  So does the answer of the backend to a poll with such a       *)
(* cursor.                                                                 *)
(***************************************************************************)
C37_UnknownCursor ==
    /\ [](\A r \in Receivers : \A c \in PollCursors :
            (c.tag = "Some" /\ get_message(db, c.id) = None) =>
                /\ get_next_message(db, r, c) = get_next_message(db, r, None)
                /\ get_next_message(db, r, c) = None <=>
                      {k \in DOMAIN db : db[k].receiver_id = r} = {}
                /\ get_next_message(db, r, c) # None =>
                      \E k \in DOMAIN db :
                          /\ get_next_message(db, r, c).val = db[k]
                          /\ db[k].receiver_id = r
                          /\ \A j \in DOMAIN db :
                                db[j].receiver_id = r =>
                                    \/ db[k].created_at < db[j].created_at
                                    \/ db[k].created_at = db[j].created_at /\ k <= j)
    /\ [][(Len(served') > Len(served) /\ inbox.tag = "CheckUpdate" /\ inbox.after.tag = "Some"
                /\ get_message(db, inbox.after.id) = None) =>
            LET result == get_next_message(db, inbox.device, None) IN
            served' = Append(served, IF result.tag = "Some" THEN header(result.val)
                                     ELSE [tag |-> "NoUpdate"])]_vars

\* The device polled with a cursor that names no message of a repository
\* with an insertion, and was answered with the header of its earliest
\* message.
C37_Witness ==
    /\ client.after.tag = "Some"
    /\ get_message(db, client.after.id) = None
    /\ Len(db) > Len(dummy(0, 0, 0))
    /\ client.polls = 1
    /\ client.pc = "await_header"
    /\ Len(served) = 1
    /\ served[1] = header(db[1])

(***************************************************************************)
(* SpecFair: the fetch and display tasks under the scheduling the code     *)
(* gives them.  The socket has SOCKET_TIMEOUT set, so the read of a        *)
(* payload returns, with the bytes or with an error: the step that ends    *)
(* handle_update is taken once it is due.  A task that awaits              *)
(* MESSAGES.lock() is woken when the guard is dropped, and the executor    *)
(* polls it before the fetch task, which first has to await the network,   *)
(* can lock again: a lock that is possible again and again is taken.       *)
(* The clock stands still: no step of either task waits for an instant,    *)
(* the timeouts are the failed outcome of the payload step.                *)
(***************************************************************************)
FairNext ==
    \/ FetchConnect \/ FetchRetry \/ FetchRequestSend \/ FetchRequestRecv
    \/ FetchLock \/ FetchPayload \/ FetchWake
    \/ DisplayLookup \/ DisplayRender \/ DisplayWake

SpecFair ==
    /\ Init
    /\ [][FairNext]_vars
    /\ WF_vars(FetchPayload)
    /\ SF_vars(DisplayLookup)

(***************************************************************************)
(* C38: the fetch and the display task do not deadlock on the cache mutex: *)
(* whoever holds it is at a step that gives it back without needing the    *)
(* other task.  Under fair scheduling the display task, once it awaits the *)
(* mutex, acquires it, also when the fetch task holds it while it reads a  *)
(* payload from a server that does not answer.                             *)
(***************************************************************************)
C38_DisplayAcquires ==
    /\ [](owner = "fetch" => (fpc = "payload" /\ ENABLED FetchPayload))
    /\ [](owner = "display" => (dpc = "render" /\ ENABLED DisplayRender))
    /\ (dpc = "lock") ~> (owner = "display")

\* The read of an image payload failed, the fetch task dropped its guard
\* and closed the connection, and the display task holds the mutex.
C38_Witness ==
    /\ owner = "display"
    /\ dpc = "render"
    /\ fpc = "sleep"
    /\ conn.end = "failure"
    /\ \E i \in DOMAIN images : images[i].data.msg = Partial

MaxTelegram == 2

\* InnerMemoryDb::dummy: the devices of the repository
devices == {DEVICE_ID}

\* InnerMemoryDb::get_device
get_device(id) == IF id \in devices THEN [tag |-> "Some", val |-> id] ELSE None

\* enum State
State ==
    {[tag |-> t] : t \in {"Unauthorized", "Authorized", "ReceiveTarget"}}
        \cup {[tag |-> "ReceiveMessage", device |-> d] : d \in devices}

\* enum CallbackData as deserialized from the data of a callback query, or
\* data that do not deserialize
CallbackData ==
    {[tag |-> "Auth", auth_request_id |-> u, choice |-> c] :
        u \in TgUsers, c \in {"Accept", "Deny"}}
      \cup {[tag |-> "Target", device_id |-> d] : d \in Receivers}
      \cup {[tag |-> "Undecodable"]}

\* The updates a user can send: a message with a command, with another
\* text or without text, or a callback query whose source message is
\* accessible or not.
TgUpdates ==
    {[kind |-> "Message", text |-> t] :
        t \in {"/help", "/start", "/send", "/cancel", "text", "none"}}
      \cup {[kind |-> "CallbackQuery", data |-> dt, regular |-> r] :
                dt \in CallbackData, r \in BOOLEAN}

\* schema, with /send handled in every State
schema_send_any_state(state, from, upd) ==
    IF upd.kind = "Message"
    THEN IF upd.text = "/help" THEN "help"
         ELSE IF upd.text = "/start" THEN "start"
         ELSE IF upd.text = "/send" THEN "send"
         ELSE IF upd.text = "/cancel" /\ state.tag # "Unauthorized" THEN "cancel"
         ELSE IF state.tag = "ReceiveMessage" THEN "receive_message"
         ELSE "invalid_state"
    ELSE IF from = admin_id /\ upd.data.tag = "Auth" THEN "handle_auth_callback"
         ELSE IF state.tag = "ReceiveTarget" /\ upd.data.tag = "Target"
              THEN "handle_target_callback"
              ELSE "default_handler"

\* schema: the endpoint an update reaches.  A message goes through the
\* command handler (the simple commands in every State, /send in State
\* Authorized, /cancel in every State but Unauthorized), else to
\* receive_message in State ReceiveMessage, else to invalid_state.  A
\* callback query of the administrator with Auth data goes to
\* handle_auth_callback, one with Target data in State ReceiveTarget to
\* handle_target_callback; any other is left to the default handler.
schema(state, from, upd) ==
    IF upd.kind = "Message"
    THEN IF upd.text = "/help" THEN "help"
         ELSE IF upd.text = "/start" THEN "start"
         ELSE IF upd.text = "/send" /\ state.tag = "Authorized" THEN "send"
         ELSE IF upd.text = "/cancel" /\ state.tag # "Unauthorized" THEN "cancel"
         ELSE IF state.tag = "ReceiveMessage" THEN "receive_message"
         ELSE "invalid_state"
    ELSE IF from = admin_id /\ upd.data.tag = "Auth" THEN "handle_auth_callback"
         ELSE IF state.tag = "ReceiveTarget" /\ upd.data.tag = "Target"
              THEN "handle_target_callback"
              ELSE "default_handler"

\* reset_dialogue: the State it leaves
reset_dialogue(state) ==
    IF state.tag = "Unauthorized" THEN state ELSE [tag |-> "Authorized"]

\* The dispatcher hands the update `upd` of `from` to `endpoint`.
Dispatched(from, upd, endpoint, ok) ==
    /\ schema(dialogue[from], from, upd) = endpoint
    /\ handled' = [from |-> from, upd |-> upd, state |-> dialogue[from],
                   endpoint |-> endpoint, ok |-> ok]

\* help, invalid_state and the dispatcher's default handler answer or log
\* and change nothing.
help ==
    /\ \E from \in TgUsers, upd \in TgUpdates, ok \in BOOLEAN : Dispatched(from, upd, "help", ok)
    /\ UNCHANGED <<dialogue, authorized_users, telegram_auth_requests>>
    /\ UNCHANGED <<db, utc, inserts, hpc, inbox, served, client>>
    /\ UNCHANGED <<codecVars, cacheVars, devVars, lisVars>>

invalid_state ==
    /\ \E from \in TgUsers, upd \in TgUpdates, ok \in BOOLEAN :
        Dispatched(from, upd, "invalid_state", ok)
    /\ UNCHANGED <<dialogue, authorized_users, telegram_auth_requests>>
    /\ UNCHANGED <<db, utc, inserts, hpc, inbox, served, client>>
    /\ UNCHANGED <<codecVars, cacheVars, devVars, lisVars>>

default_handler ==
    /\ \E from \in TgUsers, upd \in TgUpdates :
        Dispatched(from, upd, "default_handler", TRUE)
    /\ UNCHANGED <<dialogue, authorized_users, telegram_auth_requests>>
    /\ UNCHANGED <<db, utc, inserts, hpc, inbox, served, client>>
    /\ UNCHANGED <<codecVars, cacheVars, devVars, lisVars>>

\* start: an authorized user's dialogue becomes Authorized; for any other
\* user send_auth_request stores an AuthRequest and asks the administrator.
start ==
    /\ \E from \in TgUsers, upd \in TgUpdates, ok \in BOOLEAN :
        /\ Dispatched(from, upd, "start", ok)
        /\ IF ~ok
           THEN UNCHANGED <<dialogue, telegram_auth_requests>>
           ELSE IF from \in authorized_users
                THEN /\ dialogue' = [dialogue EXCEPT ![from] = [tag |-> "Authorized"]]
                     /\ UNCHANGED telegram_auth_requests
                ELSE /\ telegram_auth_requests' = telegram_auth_requests \cup {from}
                     /\ UNCHANGED dialogue
    /\ UNCHANGED authorized_users
    /\ UNCHANGED <<db, utc, inserts, hpc, inbox, served, client>>
    /\ UNCHANGED <<codecVars, cacheVars, devVars, lisVars>>

\* send: the devices are offered and the dialogue becomes ReceiveTarget.
telegram_send ==
    /\ \E from \in TgUsers, upd \in TgUpdates, ok \in BOOLEAN :
        /\ Dispatched(from, upd, "send", ok)
        /\ dialogue' = IF ok THEN [dialogue EXCEPT ![from] = [tag |-> "ReceiveTarget"]]
                       ELSE dialogue
    /\ UNCHANGED <<authorized_users, telegram_auth_requests>>
    /\ UNCHANGED <<db, utc, inserts, hpc, inbox, served, client>>
    /\ UNCHANGED <<codecVars, cacheVars, devVars, lisVars>>

\* cancel
cancel ==
    /\ \E from \in TgUsers, upd \in TgUpdates, ok \in BOOLEAN :
        /\ Dispatched(from, upd, "cancel", ok)
        /\ dialogue' = IF ok THEN [dialogue EXCEPT ![from] = reset_dialogue(dialogue[from])]
                       ELSE dialogue
    /\ UNCHANGED <<authorized_users, telegram_auth_requests>>
    /\ UNCHANGED <<db, utc, inserts, hpc, inbox, served, client>>
    /\ UNCHANGED <<codecVars, cacheVars, devVars, lisVars>>

\* handle_target_callback: a known device whose source message is there
\* makes the dialogue ReceiveMessage; anything else resets it.
handle_target_callback ==
    /\ \E from \in TgUsers, upd \in TgUpdates, ok \in BOOLEAN :
        /\ Dispatched(from, upd, "handle_target_callback", ok)
        /\ dialogue' =
              IF ~ok THEN dialogue
              ELSE IF get_device(upd.data.device_id).tag = "Some" /\ upd.regular
                   THEN [dialogue EXCEPT ![from] =
                            [tag |-> "ReceiveMessage",
                             device |-> get_device(upd.data.device_id).val]]
                   ELSE [dialogue EXCEPT ![from] = reset_dialogue(dialogue[from])]
    /\ UNCHANGED <<authorized_users, telegram_auth_requests>>
    /\ UNCHANGED <<db, utc, inserts, hpc, inbox, served, client>>
    /\ UNCHANGED <<codecVars, cacheVars, devVars, lisVars>>

\* receive_message: a text is added to the repository for the device of
\* the State, with a Utc::now() of its own; then the dialogue is reset.
receive_message ==
    /\ \E from \in TgUsers, upd \in TgUpdates, ok \in BOOLEAN :
        /\ Dispatched(from, upd, "receive_message", ok)
        /\ IF ok /\ upd.text # "none"
           THEN /\ Len(db) < Len(dummy(0, 0, 0)) + MaxTelegram
                /\ \E t \in utc..MaxUtc :
                    /\ utc' = t
                    /\ db' = add_message(db, [receiver_id |-> dialogue[from].device,
                                              created_at |-> t, content |-> "Text"])
           ELSE UNCHANGED <<db, utc>>
        /\ dialogue' = IF ok THEN [dialogue EXCEPT ![from] = reset_dialogue(dialogue[from])]
                       ELSE dialogue
    /\ UNCHANGED <<authorized_users, telegram_auth_requests>>
    /\ UNCHANGED <<inserts, hpc, inbox, served, client>>
    /\ UNCHANGED <<codecVars, cacheVars, devVars, lisVars>>

\* handle_auth_callback: the administrator accepts or denies a request that
\* is stored; an accepted user is added to the authorized users.
handle_auth_callback ==
    /\ \E from \in TgUsers, upd \in TgUpdates, ok \in BOOLEAN :
        /\ Dispatched(from, upd, "handle_auth_callback", ok)
        /\ authorized_users' =
              IF ok /\ upd.data.auth_request_id \in telegram_auth_requests
                    /\ upd.data.choice = "Accept"
              THEN authorized_users \cup {upd.data.auth_request_id}
              ELSE authorized_users
    /\ UNCHANGED <<dialogue, telegram_auth_requests>>
    /\ UNCHANGED <<db, utc, inserts, hpc, inbox, served, client>>
    /\ UNCHANGED <<codecVars, cacheVars, devVars, lisVars>>

\* The repository is the dummy one and every chat is in State::default().
DialogueInit ==
    /\ CacheIdle /\ CodecIdle /\ ListenerIdle /\ TelegramIdle
    /\ db = dummy(0, 0, 1)
    /\ utc = 1
    /\ inserts = [r \in 1..MaxInserts |-> [pc |-> "idle"]]
    /\ hpc = "listen"
    /\ inbox = NoValue
    /\ served = <<>>
    /\ client = ClientIdle

DialogueNext ==
    \/ help \/ start \/ telegram_send \/ cancel \/ receive_message \/ invalid_state
    \/ handle_auth_callback \/ handle_target_callback \/ default_handler

SpecDialogue == DialogueInit /\ [][DialogueNext]_vars

(***************************************************************************)
(* C40: in the Telegram dialogue a message is added to the repository only *)
(* by receive_message in State ReceiveMessage; a dialogue becomes          *)
(* ReceiveMessage only from ReceiveTarget by a target callback for a known *)
(* device, and ReceiveTarget only from Authorized by /send.  A dialogue    *)
(* leaves Unauthorized only in start when the repository has the user as   *)
(* authorized; /send, /cancel and reset_dialogue never move an             *)
(* Unauthorized dialogue.                                                  *)
(***************************************************************************)
C40_DialogueGuards ==
    /\ [](\A u \in TgUsers : dialogue[u] \in State)
    /\ [](reset_dialogue([tag |-> "Unauthorized"]) = [tag |-> "Unauthorized"])
    /\ [][/\ db' # db =>
              /\ handled'.endpoint = "receive_message"
              /\ handled'.state.tag = "ReceiveMessage"
              /\ dialogue[handled'.from] = handled'.state
              /\ db' = Append(db, db'[Len(db')])
              /\ db'[Len(db')].receiver_id = handled'.state.device
              /\ handled'.state.device \in devices
          /\ \A u \in TgUsers :
              /\ (dialogue'[u].tag = "ReceiveMessage" /\ dialogue'[u] # dialogue[u]) =>
                    /\ dialogue[u].tag = "ReceiveTarget"
                    /\ handled'.from = u
                    /\ handled'.endpoint = "handle_target_callback"
                    /\ handled'.upd.data = [tag |-> "Target", device_id |-> dialogue'[u].device]
                    /\ dialogue'[u].device \in devices
              /\ (dialogue'[u].tag = "ReceiveTarget" /\ dialogue'[u] # dialogue[u]) =>
                    /\ dialogue[u].tag = "Authorized"
                    /\ handled'.from = u
                    /\ handled'.upd = [kind |-> "Message", text |-> "/send"]
              /\ (dialogue[u].tag = "Unauthorized" /\ dialogue'[u].tag # "Unauthorized") =>
                    /\ handled'.from = u
                    /\ handled'.endpoint = "start"
                    /\ u \in authorized_users
                    /\ dialogue'[u].tag = "Authorized"
              /\ (dialogue[u].tag = "Unauthorized" /\ handled' # handled /\ handled'.from = u
                    /\ handled'.upd.kind = "Message"
                    /\ handled'.upd.text \in {"/send", "/cancel"}) =>
                    dialogue'[u].tag = "Unauthorized"
         ]_vars

\* The other user was accepted by the administrator, started, chose the
\* device and sent a text: the text is in the repository for that device
\* and the dialogue is Authorized again.
C40_Witness ==
    /\ handled # NoValue
    /\ handled.from = "user"
    /\ handled.endpoint = "receive_message"
    /\ handled.upd = [kind |-> "Message", text |-> "text"]
    /\ handled.ok
    /\ Len(db) = Len(dummy(0, 0, 0)) + 1
    /\ db[Len(db)].receiver_id = DEVICE_ID
    /\ dialogue["user"] = [tag |-> "Authorized"]
    /\ dialogue[admin_id] = [tag |-> "Unauthorized"]

====
